---- MODULE Spec2Model ----
(***************************************************************************)
(* A model of serde_kicad_sexpr: the s-expression decoder (src/src/de),    *)
(* the encoder (src/src/ser), the optional-value resolver                  *)
(* (src/src/option.rs) and the untagged-variant resolver                   *)
(* (src/src/untagged.rs, src/src/private.rs).                              *)
(*                                                                         *)
(* Text is a sequence of bytes.  An ASCII byte is a one-character string;  *)
(* the two-character strings "C3" and "A9" stand for the two bytes of the  *)
(* UTF-8 encoding of U+00E9.  Offsets are 0-based byte offsets as in the   *)
(* source; Slice converts them to TLA+ positions.                          *)
(***************************************************************************)
EXTENDS Integers, Sequences, FiniteSets, TLC

\* ------------------------------------------------------------------ text

Min(S) == CHOOSE x \in S : \A y \in S : x <= y

\* &s[a..b] of the source: bytes a (inclusive) to b (exclusive), 0-based.
Slice(s, a, b) == SubSeq(s, a + 1, b)

\* &s[a..]
SliceFrom(s, a) == SubSeq(s, a + 1, Len(s))

RECURSIVE Cat(_)
\* Concatenation of a sequence of texts.
Cat(parts) ==
    IF parts = << >> THEN << >> ELSE Head(parts) \o Cat(Tail(parts))

\* The characters char::is_ascii_alphabetic holds for.
AsciiAlphabetic ==
    {"a", "b", "c", "d", "e", "f", "g", "h", "i", "j", "k", "l", "m",
     "n", "o", "p", "q", "r", "s", "t", "u", "v", "w", "x", "y", "z",
     "A", "B", "C", "D", "E", "F", "G", "H", "I", "J", "K", "L", "M",
     "N", "O", "P", "Q", "R", "S", "T", "U", "V", "W", "X", "Y", "Z"}

DigitChars == <<"0", "1", "2", "3", "4", "5", "6", "7", "8", "9">>

is_ascii_alphabetic(ch) == ch \in AsciiAlphabetic

is_ascii_digit(ch) == \E i \in 1..Len(DigitChars) : DigitChars[i] = ch

\* char::is_ascii_whitespace: space, tab, line feed, form feed, carriage return.
AsciiWhitespace == {" ", "\t", "\n", "\f", "\r"}

is_ascii_whitespace(ch) == ch \in AsciiWhitespace

\* The White_Space characters of char::is_whitespace, which str::trim_start
\* uses.  U+000B and the non-ASCII ones are not in the modelled alphabet.
WhiteSpace == AsciiWhitespace

\* The characters of an identifier: take_while(is_ascii_alphabetic || '_').
IdentChars == AsciiAlphabetic \cup {"_"}

\* The characters that end a number or a bare string.
AtomStops == AsciiWhitespace \cup {")"}

\* A continuation byte of a multi-byte character.
IsContinuation(b) == b = "A9"

\* char::len_utf8 of the character that starts with byte b.
len_utf8(b) == IF b = "C3" THEN 2 ELSE 1

\* str::is_char_boundary
is_char_boundary(s, idx) ==
    \/ idx = 0
    \/ idx = Len(s)
    \/ idx > 0 /\ idx < Len(s) /\ ~IsContinuation(s[idx + 1])

\* s.chars().count()
CharCount(s) == Cardinality({i \in 1..Len(s) : ~IsContinuation(s[i])})

\* Byte length of the longest prefix of s whose bytes are all in set S:
\* chars().take_while(..).map(len_utf8).sum()
PrefixIn(s, S) ==
    LET stops == {i \in 1..Len(s) : s[i] \notin S}
    IN  IF stops = {} THEN Len(s) ELSE Min(stops) - 1

\* Byte length of the longest prefix of s none of whose bytes is in set S.
PrefixNotIn(s, S) ==
    LET stops == {i \in 1..Len(s) : s[i] \in S}
    IN  IF stops = {} THEN Len(s) ELSE Min(stops) - 1

ends_with(s, suffix) ==
    /\ Len(s) >= Len(suffix)
    /\ SubSeq(s, Len(s) - Len(suffix) + 1, Len(s)) = suffix

\* ------------------------------------------------------------ results

\* The value carried by a failed result.
NoValue == [t |-> "error"]

\* Result<T>: a value and the deserializer's remaining input.  flag says
\* whether a visitor callback other than visit_none was invoked on the
\* outermost visitor of the request (what OptionVisitor records).
Ok(val, input, flag) ==
    [ok |-> TRUE, val |-> val, err |-> "", input |-> input, flag |-> flag]

Err(kind, input, flag) ==
    [ok |-> FALSE, val |-> NoValue, err |-> kind, input |-> input, flag |-> flag]

\* de::Error::invalid_value(unexpected, &visitor) of the visitor of an
\* untagged! enum: a Message whose text lists the names it expects.
InvalidValue(names, input, flag) ==
    [ok |-> FALSE, val |-> [t |-> "error", expected |-> names],
     err |-> "Message", input |-> input, flag |-> flag]

\* ------------------------------------------------------------- lexer

\* skip_whitespace leaving one blank before the text.
skip_whitespace_padded(input) ==
    <<" ">> \o SliceFrom(input, PrefixIn(input, WhiteSpace))

\* Deserializer::skip_whitespace
skip_whitespace(input) ==
    SliceFrom(input, PrefixIn(input, WhiteSpace))

\* Deserializer::next_char: the input after the character.
next_char(input) == SliceFrom(input, len_utf8(input[1]))

RECURSIVE peek_token_scan_unbroken(_, _)
\* The loop of peek_token going on over whitespace.
peek_token_scan_unbroken(chars, int) ==
    IF chars = << >> THEN (IF int THEN "Int" ELSE "Float")
    ELSE LET ch == Head(chars)
         IN  IF ch = "(" THEN "SExpr"
             ELSE IF ch = "." THEN peek_token_scan_unbroken(Tail(chars), FALSE)
             ELSE IF ch = "-" \/ is_ascii_whitespace(ch) \/ is_ascii_digit(ch)
                  THEN peek_token_scan_unbroken(Tail(chars), int)
             ELSE "String"

RECURSIVE peek_token_scan(_, _)
\* The while-let loop of Deserializer::peek_token.
peek_token_scan(chars, int) ==
    IF chars = << >> THEN (IF int THEN "Int" ELSE "Float")
    ELSE LET ch == Head(chars)
         IN  IF ch = "(" THEN "SExpr"
             ELSE IF ch = "." THEN peek_token_scan(Tail(chars), FALSE)
             ELSE IF ch = "-" THEN peek_token_scan(Tail(chars), int)
             ELSE IF is_ascii_whitespace(ch)
                  THEN (IF int THEN "Int" ELSE "Float")
             ELSE IF is_ascii_digit(ch) THEN peek_token_scan(Tail(chars), int)
             ELSE "String"

\* Deserializer::peek_token: "Eof" or the token class.
peek_token(input) ==
    IF input = << >> THEN "Eof" ELSE peek_token_scan(input, TRUE)

\* Deserializer::peek_identifier; the empty text stands for None.
peek_identifier(input) == Slice(input, 0, PrefixIn(input, IdentChars))

\* Deserializer::peek_sexpr_identifier
peek_sexpr_identifier(input) ==
    IF input = << >> THEN Err("Eof", input, FALSE)
    ELSE IF input[1] # "(" THEN Err("ExpectedSExpr", input, FALSE)
    ELSE LET len == PrefixIn(Tail(input), IdentChars)
         IN  IF len = 0 THEN Err("ExpectedIdentifier", input, FALSE)
             ELSE Ok(Slice(input, 1, 1 + len), input, FALSE)

\* Deserializer::consume
consume(input, len) ==
    IF Len(input) < len THEN Err("Eof", input, FALSE)
    ELSE Ok(NoValue, SliceFrom(input, len), FALSE)

\* ---------------------------------------------------- scalar parsers

\* The numeric types of the requests: [signed, bits], or "f" for a float.
IntType(signed, bits) == [k |-> "int", signed |-> signed, bits |-> bits]

FloatType == [k |-> "float"]

\* Values.
IntVal(n) == [t |-> "int", v |-> n]

\* A finite float as the decimal m * 10^-e, normalised: m is not a multiple
\* of 10 unless e = 0.  Infinities, NaN and exponents are not modelled; no
\* modelled input holds such a token.
FloatVal(m, e) == [t |-> "float", m |-> m, e |-> e]

StrVal(s) == [t |-> "str", v |-> s]

RECURSIVE DigitsVal(_, _)
\* The number a run of digits denotes, most significant first.
DigitsVal(digits, acc) ==
    IF digits = << >> THEN acc
    ELSE LET digit == CHOOSE i \in 1..10 : DigitChars[i] = Head(digits)
         IN  DigitsVal(Tail(digits), acc * 10 + (digit - 1))

AllDigits(s) == \A i \in 1..Len(s) : is_ascii_digit(s[i])

\* The range of an integer type.  Types wider than 16 bits hold every number
\* the modelled inputs can write.
IntFits(ty, n) ==
    IF ty.bits > 16 THEN ty.signed \/ n >= 0
    ELSE IF ty.signed THEN -(2 ^ (ty.bits - 1)) <= n /\ n < 2 ^ (ty.bits - 1)
    ELSE 0 <= n /\ n < 2 ^ ty.bits

\* str::parse of an integer type keeping the low bits of a number out of
\* range.
ParseInt_wrapping(ty, s) ==
    LET signed == s # << >> /\ s[1] \in {"+", "-"}
        digits == IF signed THEN Tail(s) ELSE s
        neg    == signed /\ s[1] = "-"
        n      == IF neg THEN -DigitsVal(digits, 0) ELSE DigitsVal(digits, 0)
    IN  IF digits = << >> \/ ~AllDigits(digits) THEN NoValue
        ELSE IF IntFits(ty, n) THEN IntVal(n)
        ELSE IntVal(n % (2 ^ ty.bits))

\* <integer as FromStr>::from_str: an optional sign (no '-' for an unsigned
\* type), then one or more digits, within the range of the type.
ParseInt(ty, s) ==
    LET signed == s # << >> /\ s[1] \in {"+", "-"}
        digits == IF signed THEN Tail(s) ELSE s
        neg    == signed /\ s[1] = "-"
        n      == IF neg THEN -DigitsVal(digits, 0) ELSE DigitsVal(digits, 0)
    IN  IF digits = << >> \/ ~AllDigits(digits) THEN NoValue
        ELSE IF neg /\ ~ty.signed THEN NoValue
        ELSE IF ~IntFits(ty, n) THEN NoValue
        ELSE IntVal(n)

RECURSIVE Normalise(_, _)
\* Drops the trailing zeros of the fraction.
Normalise(m, e) ==
    IF e > 0 /\ m % 10 = 0 THEN Normalise(m \div 10, e - 1) ELSE FloatVal(m, e)

\* <f32 as FromStr>::from_str on a decimal without exponent: an optional
\* sign, digits, an optional '.' and digits, one digit at least.
ParseFloat(s) ==
    LET signed == s # << >> /\ s[1] \in {"+", "-"}
        body   == IF signed THEN Tail(s) ELSE s
        ilen   == PrefixNotIn(body, {"."})
        int    == Slice(body, 0, ilen)
        frac   == IF ilen < Len(body) THEN SliceFrom(body, ilen + 1) ELSE << >>
        m      == DigitsVal(int \o frac, 0)
    IN  IF int \o frac = << >> \/ ~AllDigits(int) \/ ~AllDigits(frac) THEN NoValue
        ELSE Normalise(IF signed /\ s[1] = "-" THEN -m ELSE m, Len(frac))

\* Deserializer::parse_number
parse_number(input, ty) ==
    LET len  == PrefixNotIn(input, AtomStops)
        text == Slice(input, 0, len)
        parsed(number) ==
            IF number = NoValue THEN Err("Message", input, FALSE)
            ELSE Ok(number, SliceFrom(input, len), FALSE)
    IN  IF len = 0 THEN Err("ExpectedNumber", input, FALSE)
        ELSE parsed(IF ty.k = "float" THEN ParseFloat(text)
                    ELSE ParseInt(ty, text))

\* (&value[start_idx..]).find(r"\\"): the offset in value of the first
\* pair of backslashes at or after start_idx, or -1.
FindEscapedBackslash(value, start_idx) ==
    LET hits == {i \in start_idx..(Len(value) - 2) :
                    value[i + 1] = "\\" /\ value[i + 2] = "\\"}
    IN  IF hits = {} THEN -1 ELSE Min(hits)

RECURSIVE CollapseBackslashes(_, _)
\* The inner while-let loop of parse_string: every pair of backslashes
\* found from start_idx on becomes one.  Slicing value off a character
\* boundary aborts the program.
CollapseBackslashes(value, start_idx) ==
    IF ~is_char_boundary(value, start_idx)
    THEN [value |-> value, start_idx |-> start_idx, panic |-> TRUE]
    ELSE LET idx == FindEscapedBackslash(value, start_idx)
         IN  IF idx < 0
             THEN [value |-> value, start_idx |-> start_idx, panic |-> FALSE]
             ELSE CollapseBackslashes(
                      Slice(value, 0, idx) \o <<"\\">> \o SliceFrom(value, idx + 2),
                      idx + 1)

\* String::remove(idx)
Remove(value, idx) == Slice(value, 0, idx) \o SliceFrom(value, idx + 1)

RECURSIVE parse_string_loop(_, _)
\* The loop of the quoted branch of Deserializer::parse_string.
parse_string_loop(value, input) ==
    LET len  == PrefixNotIn(input, {"\""})
        rest == SliceFrom(input, len + 1)
        unescaped(v, start_idx) ==
            IF ends_with(v, <<"\\", "\"">>) /\ start_idx < Len(v) - 1
            THEN parse_string_loop(Remove(v, Len(v) - 2), rest)
            ELSE IF ends_with(v, <<"\"">>)
                 THEN Ok(StrVal(Remove(v, Len(v) - 1)), rest, FALSE)
            ELSE Err("Panic", rest, FALSE)
        collapsed(c) ==
            IF c.panic THEN Err("Panic", rest, FALSE)
            ELSE unescaped(c.value, c.start_idx)
    IN  IF len >= Len(input) THEN Err("Eof", input, FALSE)
        ELSE collapsed(CollapseBackslashes(value \o Slice(input, 0, len + 1),
                                           CharCount(value)))

\* Deserializer::parse_string
parse_string(input) ==
    IF input = << >> THEN Err("Eof", input, FALSE)
    ELSE IF input[1] = "(" THEN Err("ExpectedString", input, FALSE)
    ELSE IF input[1] = "\"" THEN parse_string_loop(<< >>, Tail(input))
    ELSE LET len == PrefixNotIn(input, AtomStops)
         IN  IF len = 0 THEN Err("Eof", input, FALSE)
             ELSE Ok(StrVal(Slice(input, 0, len)), SliceFrom(input, len), FALSE)

\* ------------------------------------------------------------- shapes

\* What the caller's types request of the deserializer (the derived
\* Deserialize implementations of the types of src/tests/test.rs).
Bool == [k |-> "bool"]

String == [k |-> "string"]

\* A unit struct renamed to name.
UnitStruct(name) == [k |-> "unit_struct", name |-> name]

\* A tuple struct (a newtype struct when it has one element).
TupleStruct(name, elems) == [k |-> "tuple_struct", name |-> name, elems |-> elems]

\* A struct with named fields; dflt holds the positions (from 1) of the
\* fields marked #[serde(default)].
Struct(name, fields, shapes, dflt) ==
    [k |-> "struct", name |-> name, fields |-> fields, shapes |-> shapes,
     dflt |-> dflt]

\* Option<T> behind #[serde(with = "serde_sexpr::Option")].
OptionWith(of) == [k |-> "option_with", of |-> of]

\* Option<T> with serde's own implementation.
NativeOption(of) == [k |-> "option", of |-> of]

\* Vec<T>
Vec(of) == [k |-> "seq", of |-> of]

\* An enum of unit variants, by their (renamed) names.
UnitEnum(variants) == [k |-> "enum", variants |-> variants]

\* An enum declared with untagged!: one newtype variant per candidate.
Untagged(inner) == [k |-> "untagged", inner |-> inner]

\* serde_sexpr::Literal
Literal == [k |-> "literal"]

\* ------------------------------------------------------------- values

UnitVal == [t |-> "unit"]

BoolVal(b) == [t |-> "bool", v |-> b]

TupleVal(vs) == [t |-> "tuple", v |-> vs]

StructVal(vs) == [t |-> "struct", v |-> vs]

None == [t |-> "none"]

Some(v) == [t |-> "some", v |-> v]

SeqVal(vs) == [t |-> "seq", v |-> vs]

\* The i-th variant (from 1) of a unit enum.
VariantVal(i) == [t |-> "variant", i |-> i]

\* The i-th variant (from 1) of an untagged! enum, holding v.
UntaggedVal(i, v) == [t |-> "untagged", i |-> i, v |-> v]

\* Literal(LiteralImp::Number(n)) or Literal(LiteralImp::Text(s)).
LiteralVal(v) == [t |-> "literal", v |-> v]

\* Field { ident: None }
NoIdent == <<"">>

\* SExpr { skip_to: None }
NoSkip == -1

\* The position (from 1) of the first element of names equal to name, or 0.
IndexOf(names, name) ==
    LET hits == {i \in 1..Len(names) : names[i] = name}
    IN  IF hits = {} THEN 0 ELSE Min(hits)

\* ----------------------------------------------------- decode engine

\* A copy of result r with its flag set to f.
WithFlag(r, f) == [r EXCEPT !.flag = f]

\* check_no_trailing_tokens without its check.
check_no_trailing_tokens_unchecked(r) == r

\* Deserializer::check_no_trailing_tokens after a successful result r.
check_no_trailing_tokens(r) ==
    LET input == skip_whitespace(r.input)
    IN  IF input # << >> THEN Err("TrailingTokens", input, r.flag)
        ELSE [r EXCEPT !.input = input]

\* consume_beginning without the comparison of the identifier to the name.
consume_beginning_unmatched(input, name) ==
    LET expect(trimmed, peek) ==
            IF ~peek.ok THEN Err(peek.err, trimmed, FALSE)
            ELSE consume(trimmed, Len(name) + 1)
        trimmed(rest) == expect(rest, peek_sexpr_identifier(rest))
    IN  trimmed(skip_whitespace(input))

\* SExpr::consume_beginning
consume_beginning(input, name) ==
    LET expect(trimmed, peek) ==
            IF ~peek.ok THEN Err(peek.err, trimmed, FALSE)
            ELSE IF peek.val # name
                 THEN Err("ExpectedSExprIdentifier", trimmed, FALSE)
            ELSE consume(trimmed, Len(name) + 1)
        trimmed(rest) == expect(rest, peek_sexpr_identifier(rest))
    IN  trimmed(skip_whitespace(input))

\* deserialize_option with every error of the wrapped decode taken for an
\* absent value.
deserialize_option_unflagged(result) ==
    IF result.ok THEN Ok(Some(result.val), result.input, result.flag)
    ELSE Ok(None, result.input, FALSE)

\* serde_sexpr::deserialize_option, given the result of the wrapped
\* T::deserialize(OptionDeserializer { de, flag }).
deserialize_option(result) ==
    IF result.ok THEN Ok(Some(result.val), result.input, result.flag)
    ELSE IF ~result.flag THEN Ok(None, result.input, FALSE)
    ELSE result

\* What the visitor of a Literal makes of the buffered content: the first
\* of Number(u16) and Text(String) that accepts it.
LiteralFromContent(r) ==
    IF ~r.ok THEN r
    ELSE IF r.val.t = "int" /\ r.val.v >= 0 /\ r.val.v < 2 ^ 16
         THEN [r EXCEPT !.val = LiteralVal(r.val)]
    ELSE IF r.val.t = "str" THEN [r EXCEPT !.val = LiteralVal(r.val)]
    ELSE Err("Message", r.input, r.flag)

\* What the derived variant-identifier visitor of a unit enum makes of the
\* content it is handed: visit_u64 takes a variant index, visit_str a
\* variant name, anything else is an invalid type.
VariantFromContent(r, variants) ==
    IF ~r.ok THEN r
    ELSE IF r.val.t = "int" /\ r.val.v >= 0 /\ r.val.v < Len(variants)
         THEN [r EXCEPT !.val = VariantVal(r.val.v + 1)]
    ELSE IF r.val.t = "str" /\ IndexOf(variants, r.val.v) # 0
         THEN [r EXCEPT !.val = VariantVal(IndexOf(variants, r.val.v))]
    ELSE Err("Message", r.input, r.flag)

\* The request any visitor makes that accepts whatever the deserializer
\* hands it (serde's buffered content, deserialize_identifier).
Content == [k |-> "any"]

\* TrueField handing the visitor of a bool visit_bool(false).
TrueField_deserialize_false(shape, input) ==
    IF shape.k \in {"bool", "any"} THEN Ok(BoolVal(FALSE), input, TRUE)
    ELSE Err("Message", input, TRUE)

\* <TrueField as Deserializer>::deserialize_any for a seed of the given
\* shape: the visitor is handed visit_bool(true).
RECURSIVE TrueField_deserialize(_, _)
TrueField_deserialize(shape, input) ==
    IF shape.k \in {"bool", "any"} THEN Ok(BoolVal(TRUE), input, TRUE)
    ELSE IF shape.k = "option_with"
         THEN deserialize_option(TrueField_deserialize(shape.of, input))
    ELSE Err("Message", input, TRUE)

\* MissingField handing no visitor anything.
MissingField_deserialize_refused(shape, input) == Err("Message", input, FALSE)

\* <MissingField as Deserializer>: deserialize_bool hands the visitor
\* visit_bool(false), every other request visit_none.
RECURSIVE MissingField_deserialize(_, _)
MissingField_deserialize(shape, input) ==
    IF shape.k = "bool" THEN Ok(BoolVal(FALSE), input, TRUE)
    ELSE IF shape.k \in {"option", "any"} THEN Ok(None, input, FALSE)
    ELSE IF shape.k = "option_with"
         THEN deserialize_option(MissingField_deserialize(shape.of, input))
    ELSE Err("Message", input, FALSE)

\* Field::deserialize_option giving None.
Field_deserialize_option_absent(input) == Ok(None, input, FALSE)

\* Field::deserialize_option: serde does not tell which s-expr the Some
\* would hold, so the request is refused.
Field_deserialize_option(input) == Err("DeserializeOption", input, FALSE)

\* SExprTuple::check_eoe on [input, end]: [ok, err, input, end].
SExprTuple_check_eoe(st) ==
    LET input == skip_whitespace(st.input)
    IN  IF st.end THEN [ok |-> TRUE, err |-> "", input |-> st.input, end |-> TRUE]
        ELSE IF input = << >>
             THEN [ok |-> FALSE, err |-> "Eof", input |-> input, end |-> FALSE]
        ELSE IF input[1] = ")"
             THEN [ok |-> TRUE, err |-> "", input |-> Tail(input), end |-> TRUE]
        ELSE [ok |-> TRUE, err |-> "", input |-> input, end |-> FALSE]

\* SExpr::check_eoe looking for the `)` whether or not skip_to is set.
SExpr_check_eoe_while_skipping(st, n) ==
    LET input == skip_whitespace(st.input)
        moved == [st EXCEPT !.input = input]
    IN  IF input = << >> THEN [ok |-> FALSE, err |-> "Eof", st |-> moved]
        ELSE IF input[1] = ")"
             THEN [ok |-> TRUE, err |-> "",
                   st |-> [input |-> Tail(input), index |-> st.index,
                           skip_to |-> n + 1]]
        ELSE [ok |-> TRUE, err |-> "", st |-> moved]

\* SExpr::check_eoe on [input, index, skip_to] with n declared fields:
\* [ok, err, st].
SExpr_check_eoe(st, n) ==
    LET input == skip_whitespace(st.input)
        moved == [st EXCEPT !.input = input]
    IN  IF st.skip_to # NoSkip THEN [ok |-> TRUE, err |-> "", st |-> moved]
        ELSE IF input = << >> THEN [ok |-> FALSE, err |-> "Eof", st |-> moved]
        ELSE IF input[1] = ")"
             THEN [ok |-> TRUE, err |-> "",
                   st |-> [input |-> Tail(input), index |-> st.index,
                           skip_to |-> n + 1]]
        ELSE [ok |-> TRUE, err |-> "", st |-> moved]

\* The loop of next_key_seed without the skipping of the empty-named
\* field.
next_key_loop_unskipped(st, fields) ==
    [some |-> st.index < Len(fields), st |-> st]

RECURSIVE next_key_loop(_, _)
\* The loop of SExpr::next_key_seed: [some, st].
next_key_loop(st, fields) ==
    IF st.index >= Len(fields) THEN [some |-> FALSE, st |-> st]
    ELSE IF fields[st.index + 1] = << >> /\ st.skip_to # NoSkip
         THEN next_key_loop(
                  [st EXCEPT !.skip_to = IF @ = st.index THEN NoSkip ELSE @,
                             !.index = @ + 1],
                  fields)
    ELSE [some |-> TRUE, st |-> st]

\* <SExpr as MapAccess>::next_key_seed: [ok, err, some, st]; the key, when
\* there is one, is fields[st.index].
next_key_seed(st, fields) ==
    LET found(key) ==
            [ok |-> TRUE, err |-> "", some |-> key.some, st |-> key.st]
        checked(eoe) ==
            IF ~eoe.ok
            THEN [ok |-> FALSE, err |-> eoe.err, some |-> FALSE, st |-> eoe.st]
            ELSE found(next_key_loop(eoe.st, fields))
    IN  checked(SExpr_check_eoe(st, Len(fields)))

\* What the derived visitor of a struct puts in a field no key came for.
MissingValue(shape, isDefault) ==
    IF isDefault
    THEN CASE shape.k = "seq" -> SeqVal(<< >>)
           [] shape.k = "bool" -> BoolVal(FALSE)
           [] shape.k = "string" -> StrVal(<< >>)
           [] shape.k = "int" -> IntVal(0)
           [] shape.k = "float" -> FloatVal(0, 0)
           [] OTHER -> None
    ELSE IF shape.k = "option" THEN None
    ELSE NoValue

\* A field of the value under construction that no key came for yet.
Unset == [t |-> "unset"]

RECURSIVE Field_deserialize(_, _, _)
RECURSIVE Field_deserialize_any(_, _)
RECURSIVE Field_next_elements(_, _, _)
RECURSIVE SExprTuple_next_element_seed(_, _)
RECURSIVE visit_seq_tuple(_, _, _, _)
RECURSIVE visit_seq_vec(_, _, _)
RECURSIVE seed_deserialize(_, _, _)
RECURSIVE next_value_seed_impl(_, _)
RECURSIVE next_value_seed(_, _)
RECURSIVE visit_map(_, _, _)
RECURSIVE Field_deserialize_struct(_, _)
RECURSIVE Field_deserialize_tuple_struct(_, _)
RECURSIVE Field_deserialize_seq(_, _, _)
RECURSIVE Field_deserialize_enum(_, _)
RECURSIVE Field_deserialize_untagged(_, _)

\* <SExprTuple as SeqAccess>::next_element_seed for a seed of the given
\* shape: [ok, err, some, val, input, end].
SExprTuple_next_element_seed(st, shape) ==
    LET failed(err, input, end) ==
            [ok |-> FALSE, err |-> err, some |-> FALSE, val |-> NoValue,
             input |-> input, end |-> end]
        after(value, eoe) ==
            IF ~eoe.ok THEN failed(eoe.err, eoe.input, FALSE)
            ELSE [ok |-> TRUE, err |-> "", some |-> TRUE, val |-> value.val,
                  input |-> eoe.input, end |-> eoe.end]
        element(value) ==
            IF ~value.ok THEN failed(value.err, value.input, FALSE)
            ELSE after(value, SExprTuple_check_eoe([input |-> value.input,
                                                    end |-> FALSE]))
        before(eoe) ==
            IF ~eoe.ok THEN failed(eoe.err, eoe.input, eoe.end)
            ELSE IF eoe.end
                 THEN [ok |-> TRUE, err |-> "", some |-> FALSE,
                       val |-> NoValue, input |-> eoe.input, end |-> TRUE]
            ELSE element(Field_deserialize(shape, NoIdent, eoe.input))
    IN  before(SExprTuple_check_eoe(st))

\* visit_seq of the derived visitor of a tuple struct: one next_element per
\* declared element, from the i-th on; a missing one is an invalid length.
visit_seq_tuple(elems, i, st, acc) ==
    LET next_element(e) ==
            IF ~e.ok THEN Err(e.err, e.input, TRUE)
            ELSE IF ~e.some THEN Err("Message", e.input, TRUE)
            ELSE visit_seq_tuple(elems, i + 1,
                                 [input |-> e.input, end |-> e.end],
                                 Append(acc, e.val))
    IN  IF i > Len(elems) THEN Ok(TupleVal(acc), st.input, TRUE)
        ELSE next_element(SExprTuple_next_element_seed(st, elems[i]))

\* visit_seq of the visitor of Vec<T> over an SExprTuple: next_element
\* until it yields None.  An element that reads nothing while the list is
\* open is asked for again without end.
visit_seq_vec(of, st, acc) ==
    LET next_element(e) ==
            IF ~e.ok THEN Err(e.err, e.input, TRUE)
            ELSE IF ~e.some THEN Ok(SeqVal(acc), e.input, TRUE)
            ELSE IF e.input = skip_whitespace(st.input) /\ ~e.end
                 THEN Err("Diverges", e.input, TRUE)
            ELSE visit_seq_vec(of, [input |-> e.input, end |-> e.end],
                               Append(acc, e.val))
    IN  next_element(SExprTuple_next_element_seed(st, of))

\* visit_seq of the visitor of Vec<T> over <Field as SeqAccess>: the
\* remaining elements of the enclosing expression, up to its ')'.
Field_next_elements(of, input, acc) ==
    LET trimmed == skip_whitespace(input)
        next_element(e) ==
            IF ~e.ok THEN Err(e.err, e.input, TRUE)
            ELSE IF e.input = trimmed THEN Err("Diverges", e.input, TRUE)
            ELSE Field_next_elements(of, e.input, Append(acc, e.val))
    IN  IF trimmed = << >> THEN Err("Eof", trimmed, TRUE)
        ELSE IF trimmed[1] = ")" THEN Ok(SeqVal(acc), trimmed, TRUE)
        ELSE next_element(Field_deserialize(of, NoIdent, trimmed))

\* next_value_seed_impl that captures a field name only for a seed that
\* is not a string or an enum.
seed_deserialize_value_first(st, shape, seed) ==
    LET fields     == shape.fields
        identifier == peek_identifier(st.input)
        consumed   == SliceFrom(st.input, Len(identifier))
        later      == {i \in (st.index + 1)..(Len(fields) - 1) :
                          fields[i + 1] = identifier}
    IN  IF st.index >= Len(fields)
        THEN [res |-> Err("IndexPanic", st.input, FALSE), skip_to |-> st.skip_to]
        ELSE IF st.skip_to # NoSkip /\ st.skip_to = st.index
             THEN [res |-> TrueField_deserialize(seed, st.input),
                   skip_to |-> NoSkip]
        ELSE IF st.skip_to # NoSkip
             THEN [res |-> MissingField_deserialize(seed, st.input),
                   skip_to |-> st.skip_to]
        ELSE IF seed.k \in {"string", "enum"}
             THEN [res |-> Field_deserialize(seed, fields[st.index + 1],
                                             st.input),
                   skip_to |-> NoSkip]
        ELSE IF identifier # << >> /\ fields[st.index + 1] = identifier
             THEN [res |-> TrueField_deserialize(seed, consumed),
                   skip_to |-> NoSkip]
        ELSE IF identifier # << >> /\ later # {}
             THEN [res |-> MissingField_deserialize(seed, consumed),
                   skip_to |-> Min(later)]
        ELSE [res |-> Field_deserialize(seed, fields[st.index + 1], st.input),
              skip_to |-> NoSkip]

\* next_value_seed_impl leaving skip_to set when index reaches it.
seed_deserialize_uncleared(st, shape, seed) ==
    LET fields     == shape.fields
        identifier == peek_identifier(st.input)
        consumed   == SliceFrom(st.input, Len(identifier))
        later      == {i \in (st.index + 1)..(Len(fields) - 1) :
                          fields[i + 1] = identifier}
    IN  IF st.index >= Len(fields)
        THEN [res |-> Err("IndexPanic", st.input, FALSE), skip_to |-> st.skip_to]
        ELSE IF st.skip_to # NoSkip /\ st.skip_to = st.index
             THEN [res |-> TrueField_deserialize(seed, st.input),
                   skip_to |-> st.skip_to]
        ELSE IF st.skip_to # NoSkip
             THEN [res |-> MissingField_deserialize(seed, st.input),
                   skip_to |-> st.skip_to]
        ELSE IF identifier # << >> /\ fields[st.index + 1] = identifier
             THEN [res |-> TrueField_deserialize(seed, consumed),
                   skip_to |-> NoSkip]
        ELSE IF identifier # << >> /\ later # {}
             THEN [res |-> MissingField_deserialize(seed, consumed),
                   skip_to |-> Min(later)]
        ELSE [res |-> Field_deserialize(seed, fields[st.index + 1], st.input),
              skip_to |-> NoSkip]

\* next_value_seed_impl without the search of the later fields.
seed_deserialize_undetected(st, shape, seed) ==
    LET fields     == shape.fields
        identifier == peek_identifier(st.input)
    IN  IF st.index >= Len(fields)
        THEN [res |-> Err("IndexPanic", st.input, FALSE), skip_to |-> st.skip_to]
        ELSE IF st.skip_to # NoSkip /\ st.skip_to = st.index
             THEN [res |-> TrueField_deserialize(seed, st.input),
                   skip_to |-> NoSkip]
        ELSE IF st.skip_to # NoSkip
             THEN [res |-> MissingField_deserialize(seed, st.input),
                   skip_to |-> st.skip_to]
        ELSE IF identifier # << >> /\ fields[st.index + 1] = identifier
             THEN [res |-> TrueField_deserialize(seed,
                               SliceFrom(st.input, Len(identifier))),
                   skip_to |-> NoSkip]
        ELSE [res |-> Field_deserialize(seed, fields[st.index + 1], st.input),
              skip_to |-> NoSkip]

\* next_value_seed_impl that leaves the identifier of a present flag in the
\* input.
seed_deserialize_unconsumed(st, shape, seed) ==
    LET fields     == shape.fields
        identifier == peek_identifier(st.input)
        later      == {i \in (st.index + 1)..(Len(fields) - 1) :
                          fields[i + 1] = identifier}
    IN  IF st.index >= Len(fields)
        THEN [res |-> Err("IndexPanic", st.input, FALSE), skip_to |-> st.skip_to]
        ELSE IF st.skip_to # NoSkip /\ st.skip_to = st.index
             THEN [res |-> TrueField_deserialize(seed, st.input),
                   skip_to |-> NoSkip]
        ELSE IF st.skip_to # NoSkip
             THEN [res |-> MissingField_deserialize(seed, st.input),
                   skip_to |-> st.skip_to]
        ELSE IF identifier # << >> /\ fields[st.index + 1] = identifier
             THEN [res |-> TrueField_deserialize(seed, st.input),
                   skip_to |-> NoSkip]
        ELSE IF identifier # << >> /\ later # {}
             THEN [res |-> MissingField_deserialize(seed, st.input),
                   skip_to |-> Min(later)]
        ELSE [res |-> Field_deserialize(seed, fields[st.index + 1], st.input),
              skip_to |-> NoSkip]

\* The body of SExpr::next_value_seed_impl for a seed of the given shape
\* at st.index of a struct: [res, skip_to].
seed_deserialize(st, shape, seed) ==
    LET fields     == shape.fields
        identifier == peek_identifier(st.input)
        consumed   == SliceFrom(st.input, Len(identifier))
        later      == {i \in (st.index + 1)..(Len(fields) - 1) :
                          fields[i + 1] = identifier}
    IN  IF st.index >= Len(fields)
        THEN [res |-> Err("IndexPanic", st.input, FALSE), skip_to |-> st.skip_to]
        ELSE IF st.skip_to # NoSkip /\ st.skip_to = st.index
             THEN [res |-> TrueField_deserialize(seed, st.input),
                   skip_to |-> NoSkip]
        ELSE IF st.skip_to # NoSkip
             THEN [res |-> MissingField_deserialize(seed, st.input),
                   skip_to |-> st.skip_to]
        ELSE IF identifier # << >> /\ fields[st.index + 1] = identifier
             THEN [res |-> TrueField_deserialize(seed, consumed),
                   skip_to |-> NoSkip]
        ELSE IF identifier # << >> /\ later # {}
             THEN [res |-> MissingField_deserialize(seed, consumed),
                   skip_to |-> Min(later)]
        ELSE [res |-> Field_deserialize(seed, fields[st.index + 1], st.input),
              skip_to |-> NoSkip]

\* SExpr::next_value_seed_impl with the seed the derived visitor passes for
\* the key it was given, the type of the field at st.index.
next_value_seed_impl(st, shape) ==
    seed_deserialize(st, shape,
                     IF st.index < Len(shape.fields)
                     THEN shape.shapes[st.index + 1] ELSE Content)

\* <SExpr as MapAccess>::next_value_seed: [ok, err, val, st].
next_value_seed(st, shape) ==
    LET checked(value, eoe) ==
            IF ~eoe.ok
            THEN [ok |-> FALSE, err |-> eoe.err, val |-> NoValue, st |-> eoe.st]
            ELSE [ok |-> TRUE, err |-> "", val |-> value.res.val, st |-> eoe.st]
        returned(value) ==
            IF ~value.res.ok
            THEN [ok |-> FALSE, err |-> value.res.err, val |-> NoValue,
                  st |-> [input |-> value.res.input, index |-> st.index,
                          skip_to |-> value.skip_to]]
            ELSE checked(value,
                         SExpr_check_eoe([input |-> value.res.input,
                                          index |-> st.index + 1,
                                          skip_to |-> value.skip_to],
                                         Len(shape.fields)))
    IN  returned(next_value_seed_impl(st, shape))

\* The end of visit_map of the derived visitor of a struct, reached when
\* next_key yields None: the fields no key came for are filled in, and one
\* that has no default is a missing field.
visit_map_end(shape, vals, input) ==
    LET filled == [i \in 1..Len(vals) |->
                      IF vals[i] = Unset
                      THEN MissingValue(shape.shapes[i], i \in shape.dflt)
                      ELSE vals[i]]
    IN  IF \E i \in 1..Len(vals) : filled[i] = NoValue
        THEN Err("Message", input, TRUE)
        ELSE Ok(StructVal(filled), input, TRUE)

\* visit_map of the derived visitor of a struct: a value is asked for
\* after every key, until no key comes.
visit_map(shape, st, vals) ==
    LET next_value(key, value) ==
            IF ~value.ok THEN Err(value.err, value.st.input, TRUE)
            ELSE visit_map(shape, value.st,
                           [vals EXCEPT ![key.st.index + 1] = value.val])
        next_key(key) ==
            IF ~key.ok THEN Err(key.err, key.st.input, TRUE)
            ELSE IF ~key.some THEN visit_map_end(shape, vals, key.st.input)
            ELSE next_value(key, next_value_seed(key.st, shape))
    IN  next_key(next_key_seed(st, shape.fields))

\* <Field as Deserializer>::deserialize_struct
Field_deserialize_struct(shape, input) ==
    LET visit(begin) ==
            IF ~begin.ok THEN Err(begin.err, begin.input, FALSE)
            ELSE visit_map(shape,
                           [input |-> begin.input, index |-> 0,
                            skip_to |-> NoSkip],
                           [i \in 1..Len(shape.fields) |-> Unset])
    IN  visit(consume_beginning(input, shape.name))

\* <Field as Deserializer>::deserialize_tuple_struct (and
\* deserialize_newtype_struct, which calls it)
Field_deserialize_tuple_struct(shape, input) ==
    LET visit(begin) ==
            IF ~begin.ok THEN Err(begin.err, begin.input, FALSE)
            ELSE visit_seq_tuple(shape.elems, 1,
                                 [input |-> begin.input, end |-> FALSE], << >>)
    IN  visit(consume_beginning(input, shape.name))

\* <Field as Deserializer>::deserialize_unit_struct
Field_deserialize_unit_struct(shape, input) ==
    LET visit(begin) ==
            IF ~begin.ok THEN Err(begin.err, begin.input, FALSE)
            ELSE IF begin.input = << >> THEN Err("Eof", begin.input, FALSE)
            ELSE IF begin.input[1] # ")"
                 THEN Err("ExpectedEoe", next_char(begin.input), FALSE)
            ELSE Ok(UnitVal, next_char(begin.input), TRUE)
    IN  visit(consume_beginning(input, shape.name))

\* The error of the ident: None arm of deserialize_seq and deserialize_unit.
MissingSExprInfo(input) ==
    LET peek == peek_sexpr_identifier(input)
    IN  IF ~peek.ok THEN Err(peek.err, input, FALSE)
        ELSE Err("MissingSExprInfo", input, FALSE)

\* <Field as Deserializer>::deserialize_seq for Vec<of>
Field_deserialize_seq(of, ident, input) ==
    LET visit(begin) ==
            IF ~begin.ok THEN Err(begin.err, begin.input, FALSE)
            ELSE visit_seq_vec(of, [input |-> begin.input, end |-> FALSE],
                               << >>)
    IN  IF ident = NoIdent THEN MissingSExprInfo(input)
        ELSE IF ident = << >> THEN Field_next_elements(of, input, << >>)
        ELSE visit(consume_beginning(input, ident))

\* <Field as Deserializer>::deserialize_any
Field_deserialize_any(ident, input) ==
    LET sexpr(peek) ==
            IF ~peek.ok THEN Err(peek.err, input, FALSE)
            ELSE IF ident # NoIdent /\ peek.val = ident
                 THEN Field_deserialize(Vec(Content), ident, input)
            ELSE Err("MissingSExprInfo", input, FALSE)
        peeked(token) ==
            CASE token = "Eof" -> Err("Eof", input, FALSE)
              [] token \in {"Int", "Float"} ->
                     WithFlag(parse_number(
                                  input,
                                  IF token = "Float" THEN FloatType
                                  ELSE IntType(input[1] = "-", 64)),
                              TRUE)
              [] token = "String" ->
                     WithFlag(Field_deserialize(String, ident, input), TRUE)
              [] token = "SExpr" -> sexpr(peek_sexpr_identifier(input))
    IN  peeked(peek_token(input))

\* <Field as Deserializer>::deserialize_enum for a derived enum of unit
\* variants: visit_enum(self), <Field as EnumAccess>::variant_seed, then
\* unit_variant on the access it returns.
Field_deserialize_enum(shape, input) ==
    LET sexpr(peek) ==
            IF ~peek.ok THEN Err(peek.err, input, TRUE)
            ELSE IF IndexOf(shape.variants, peek.val) = 0
                 THEN Err("Message", input, TRUE)
            ELSE Err("NonNewtypeEnumVariant", input, TRUE)
        peeked(token) ==
            IF token = "Eof" THEN Err("Eof", input, TRUE)
            ELSE IF token = "SExpr" THEN sexpr(peek_sexpr_identifier(input))
            ELSE WithFlag(VariantFromContent(
                              Field_deserialize(Content, NoIdent, input),
                              shape.variants),
                          TRUE)
    IN  peeked(peek_token(input))

\* <NameExtractor as Deserializer>: the head identifier a candidate asks
\* for, or the empty text when the candidate is no unit struct, tuple
\* struct or struct (Extraction::Err).
NameExtractor_deserialize(shape) ==
    IF shape.k \in {"unit_struct", "tuple_struct", "struct"} THEN shape.name
    ELSE << >>

\* The initialiser of the static VARIANTS of an untagged! enum:
\* Ok(the candidates' names in declaration order) or the first Err.
VARIANTS_init(inner) ==
    LET names == [i \in 1..Len(inner) |-> NameExtractor_deserialize(inner[i])]
    IN  IF \E i \in 1..Len(inner) : names[i] = << >>
        THEN [ok |-> FALSE, names |-> << >>]
        ELSE [ok |-> TRUE, names |-> names]

\* visit_enum taking the last candidate whose name matches.
untagged_pick_last(names, variant_name) ==
    LET hits == {i \in 1..Len(names) : names[i] = variant_name}
    IN  IF hits = {} THEN 0 ELSE CHOOSE i \in hits : \A j \in hits : j <= i

\* The position (from 1) of the candidate that visit_enum of an untagged!
\* enum picks for variant_name: the first, in declaration order, whose
\* probed name equals it; 0 when there is none.
untagged_pick(names, variant_name) == IndexOf(names, variant_name)

\* Deserialize of an untagged! enum on a Field: deserialize_enum,
\* visit_enum(self), <Field as EnumAccess>::variant_seed, newtype_variant.
Field_deserialize_untagged(shape, input) ==
    LET newtype_variant(i, inner) ==
            IF ~inner.ok THEN WithFlag(inner, TRUE)
            ELSE Ok(UntaggedVal(i, inner.val), inner.input, TRUE)
        picked(names, i) ==
            IF i = 0 THEN InvalidValue(names, input, TRUE)
            ELSE newtype_variant(
                     i, Field_deserialize(shape.inner[i], NoIdent, input))
        sexpr(names, peek) ==
            IF ~peek.ok THEN Err(peek.err, input, TRUE)
            ELSE picked(names, untagged_pick(names, peek.val))
        unit(names, text) ==
            IF ~text.ok THEN WithFlag(text, TRUE)
            ELSE IF untagged_pick(names, text.val.v) # 0
                 THEN Err("NonUnitEnumVariant", text.input, TRUE)
            ELSE Err("Message", text.input, TRUE)
        peeked(names, token) ==
            IF token = "Eof" THEN Err("Eof", input, TRUE)
            ELSE IF token = "SExpr"
                 THEN sexpr(names, peek_sexpr_identifier(input))
            ELSE unit(names, Field_deserialize(String, NoIdent, input))
        read(variants) ==
            IF ~variants.ok THEN Err("Message", input, FALSE)
            ELSE peeked(variants.names, peek_token(input))
    IN  read(VARIANTS_init(shape.inner))

\* T::deserialize(Field::new(de, ident)) for a T of the given shape.
Field_deserialize(shape, ident, input) ==
    CASE shape.k = "bool" -> Ok(BoolVal(FALSE), input, TRUE)
      [] shape.k \in {"int", "float"} ->
             LET visit(number) == WithFlag(number, number.ok)
             IN  visit(parse_number(input, shape))
      [] shape.k = "string" ->
             LET visit(text) == WithFlag(text, text.ok)
             IN  visit(parse_string(input))
      [] shape.k = "unit_struct" -> Field_deserialize_unit_struct(shape, input)
      [] shape.k = "tuple_struct" -> Field_deserialize_tuple_struct(shape, input)
      [] shape.k = "struct" -> Field_deserialize_struct(shape, input)
      [] shape.k = "option_with" ->
             deserialize_option(Field_deserialize(shape.of, ident, input))
      [] shape.k = "option" -> Field_deserialize_option(input)
      [] shape.k = "seq" -> Field_deserialize_seq(shape.of, ident, input)
      [] shape.k = "enum" -> Field_deserialize_enum(shape, input)
      [] shape.k = "untagged" -> Field_deserialize_untagged(shape, input)
      [] shape.k \in {"any", "literal"} ->
             LET visit(content) ==
                     IF shape.k = "literal" THEN LiteralFromContent(content)
                     ELSE content
             IN  visit(Field_deserialize_any(ident, input))

RECURSIVE Deserializer_deserialize(_, _)
RECURSIVE untagged_deserialize(_, _, _)

\* <$name as Deserialize>::deserialize of an untagged! enum on
\* &mut Deserializer, from what VARIANTS was read as: deserialize_enum,
\* visit_enum(Enum), <Enum as EnumAccess>::variant_seed, newtype_variant.
untagged_deserialize(variants, shape, input) ==
    LET peek  == peek_sexpr_identifier(input)
        i     == untagged_pick(variants.names, peek.val)
        newtype_variant(inner) ==
            IF ~inner.ok THEN WithFlag(inner, TRUE)
            ELSE check_no_trailing_tokens(
                     Ok(UntaggedVal(i, inner.val), inner.input, TRUE))
    IN  IF ~variants.ok THEN Err("Message", input, FALSE)
        ELSE IF ~peek.ok THEN Err(peek.err, input, TRUE)
        ELSE IF i = 0 THEN InvalidValue(variants.names, input, TRUE)
        ELSE newtype_variant(Deserializer_deserialize(shape.inner[i], input))

\* T::deserialize(&mut Deserializer) for a T of the given shape.
Deserializer_deserialize(shape, input) ==
    LET peek == peek_sexpr_identifier(input)
        checked(v) == IF v.ok THEN check_no_trailing_tokens(v) ELSE v
    IN  CASE shape.k \in {"unit_struct", "tuple_struct", "struct"} ->
                 checked(Field_deserialize(shape, NoIdent, input))
          [] shape.k = "enum" ->
                 IF ~peek.ok THEN Err(peek.err, input, TRUE)
                 ELSE IF IndexOf(shape.variants, peek.val) = 0
                      THEN Err("Message", input, TRUE)
                 ELSE Err("NonNewtypeEnumVariant", input, TRUE)
          [] shape.k = "untagged" ->
                 untagged_deserialize(VARIANTS_init(shape.inner), shape, input)
          [] OTHER -> Err("ExpectedStruct", input, FALSE)

\* serde_sexpr::from_str::<T> for a T of the given shape.
from_str(shape, input) == Deserializer_deserialize(shape, input)

\* ----------------------------------------------------- encode engine

\* Serializer::new(pretty)
Serializer_new(pretty) ==
    [buf |-> << >>, pretty |-> pretty, lvl |-> 0, indent |-> 0]

RECURSIVE Indent(_)
\* The for loop of Serializer::newline: two spaces per level.
Indent(lvl) == IF lvl = 0 THEN << >> ELSE <<" ", " ">> \o Indent(lvl - 1)

\* newline with one space for each level.
newline_narrow(ser) ==
    [ser EXCEPT !.buf = @ \o <<"\n">> \o [i \in 1..ser.lvl |-> " "],
                !.indent = ser.lvl]

\* Serializer::newline
newline(ser) ==
    [ser EXCEPT !.buf = @ \o <<"\n">> \o Indent(ser.lvl), !.indent = ser.lvl]

\* Serializer::begin_sexpr
begin_sexpr(ser, name) ==
    LET sep == IF ser.lvl > 0
               THEN (IF ser.pretty THEN newline(ser)
                     ELSE [ser EXCEPT !.buf = @ \o <<" ">>])
               ELSE ser
    IN  [sep EXCEPT !.lvl = @ + 1, !.buf = @ \o <<"(">> \o name]

\* Serializer::end_sexpr
end_sexpr(ser) == [ser EXCEPT !.lvl = @ - 1, !.buf = @ \o <<")">>]

RECURSIVE NatToText(_)
\* The decimal digits of a natural number.
NatToText(n) ==
    IF n < 10 THEN <<DigitChars[n + 1]>>
    ELSE NatToText(n \div 10) \o <<DigitChars[(n % 10) + 1]>>

\* itoa::Buffer::format
IntToText(n) == IF n < 0 THEN <<"-">> \o NatToText(-n) ELSE NatToText(n)

RECURSIVE Zeros(_)
Zeros(n) == IF n <= 0 THEN << >> ELSE <<"0">> \o Zeros(n - 1)

\* <f32 as ToString>::to_string of the finite decimal m * 10^-e: the
\* integer part, then '.' and the fraction when there is one.
FloatToText(v) ==
    LET abs    == IF v.m < 0 THEN -v.m ELSE v.m
        digits == NatToText(abs)
        padded == Zeros(v.e + 1 - Len(digits)) \o digits
        cut    == Len(padded) - v.e
        sign   == IF v.m < 0 THEN <<"-">> ELSE << >>
    IN  IF v.e = 0 THEN sign \o digits
        ELSE sign \o Slice(padded, 0, cut) \o <<".">> \o SliceFrom(padded, cut)

\* Serializer::write_integer
write_integer(ser, v) == [ser EXCEPT !.buf = @ \o <<" ">> \o IntToText(v)]

\* Serializer::write_float
write_float(ser, v) == [ser EXCEPT !.buf = @ \o <<" ">> \o FloatToText(v)]

RECURSIVE Replace(_, _, _)
\* str::replace(from, to) for a one-byte pattern.
Replace(s, from, to) ==
    IF s = << >> THEN << >>
    ELSE (IF Head(s) = from THEN to ELSE <<Head(s)>>)
         \o Replace(Tail(s), from, to)

\* The CHARS of Serializer::write_str.
CHARS == {" ", "\t", "\n", "\r", "(", ")", "\""}

\* need_quotes with the two rules exchanged.
need_quotes_exchanged(v, aggressive_quotes) ==
    \/ v = << >>
    \/ IF aggressive_quotes
       THEN \E i \in 1..Len(v) : v[i] \in CHARS
       ELSE \E i \in 1..Len(v) : ~is_ascii_alphabetic(v[i]) /\ v[i] # "_"

\* need_quotes of Serializer::write_str
need_quotes(v, aggressive_quotes) ==
    \/ v = << >>
    \/ IF aggressive_quotes
       THEN \E i \in 1..Len(v) : ~is_ascii_alphabetic(v[i]) /\ v[i] # "_"
       ELSE \E i \in 1..Len(v) : v[i] \in CHARS

\* The escaping of write_str without the doubling of backslashes.
Escape_quotes_only(v) == Replace(v, "\"", <<"\\", "\"">>)

\* v.replace('\\', r"\\").replace('"', r#"\""#) of Serializer::write_str
Escape(v) == Replace(Replace(v, "\\", <<"\\", "\\">>), "\"", <<"\\", "\"">>)

\* Serializer::write_str
write_str(ser, v, aggressive_quotes) ==
    [ser EXCEPT !.buf =
        @ \o <<" ">> \o
        (IF need_quotes(v, aggressive_quotes)
         THEN <<"\"">> \o Escape(v) \o <<"\"">>
         ELSE v)]

\* Result<()> of a serializer method, with the serializer it leaves.
SerOk(ser) == [ok |-> TRUE, err |-> "", ser |-> ser]

SerErr(kind, ser) == [ok |-> FALSE, err |-> kind, ser |-> ser]

RECURSIVE Field_serialize(_, _, _, _)
RECURSIVE serialize_elements(_, _, _, _, _)
RECURSIVE serialize_compound(_, _, _)

\* The serialize_field / serialize_element calls of a struct, a tuple
\* struct or a sequence, from the i-th on: each value goes to a Field with
\* the name names[i] (NoIdent for an unnamed one); the first error ends it.
serialize_elements(ser, names, shapes, values, i) ==
    IF i > Len(values) THEN SerOk(ser)
    ELSE LET next(r) ==
                 IF ~r.ok THEN r
                 ELSE serialize_elements(r.ser, names, shapes, values, i + 1)
         IN  next(Field_serialize(ser, names[i], shapes[i], values[i]))

\* serialize_unit_struct, serialize_newtype_struct, serialize_tuple_struct
\* and serialize_struct of &mut Serializer, with the calls the derived
\* Serialize makes on what they return.
serialize_compound(ser, shape, value) ==
    LET named == shape.k = "struct"
        closed(body) ==
            IF ~body.ok THEN body ELSE SerOk(end_sexpr(body.ser))
        begun(sexpr) ==
            IF shape.k = "unit_struct" THEN SerOk(end_sexpr(sexpr))
            ELSE closed(serialize_elements(
                            sexpr,
                            IF named THEN shape.fields
                            ELSE [i \in 1..Len(value.v) |-> NoIdent],
                            IF named THEN shape.shapes ELSE shape.elems,
                            value.v, 1))
    IN  begun(begin_sexpr(ser, shape.name))

\* value.serialize(Field { ser, name }) for a value of the given shape.
Field_serialize(ser, name, shape, value) ==
    CASE shape.k = "bool" ->
             IF name = NoIdent THEN SerErr("UnnamedBoolean", ser)
             ELSE IF value.v THEN SerOk(write_str(ser, name, TRUE))
             ELSE SerOk(ser)
      [] shape.k = "int" -> SerOk(write_integer(ser, value.v))
      [] shape.k = "float" -> SerOk(write_float(ser, value))
      [] shape.k = "string" -> SerOk(write_str(ser, value.v, TRUE))
      [] shape.k \in {"option", "option_with"} ->
             IF value = None THEN SerOk(ser)
             ELSE Field_serialize(ser, name, shape.of, value.v)
      [] shape.k \in {"unit_struct", "tuple_struct", "struct"} ->
             serialize_compound(ser, shape, value)
      [] shape.k = "enum" ->
             SerOk(write_str(ser, shape.variants[value.i], FALSE))
      [] shape.k = "untagged" ->
             Field_serialize(ser, name, shape.inner[value.i], value.v)
      [] shape.k = "literal" ->
             IF value.v.t = "int" THEN SerOk(write_integer(ser, value.v.v))
             ELSE SerOk(write_str(ser, value.v.v, TRUE))
      [] shape.k = "seq" ->
             LET close == name # << >>
                 closed(body) ==
                     IF ~body.ok THEN body
                     ELSE SerOk(IF close THEN end_sexpr(body.ser)
                                ELSE body.ser)
             IN  IF name = NoIdent THEN SerErr("UnnamedSeq", ser)
                 ELSE closed(serialize_elements(
                                 IF close THEN begin_sexpr(ser, name) ELSE ser,
                                 [i \in 1..Len(value.v) |-> NoIdent],
                                 [i \in 1..Len(value.v) |-> shape.of],
                                 value.v, 1))

\* value.serialize(&mut Serializer) taking the root for a field without
\* a name.
Serializer_serialize_as_field(ser, shape, value) ==
    Field_serialize(ser, NoIdent, shape, value)

RECURSIVE Serializer_serialize(_, _, _)
\* value.serialize(&mut Serializer) for a value of the given shape.
Serializer_serialize(ser, shape, value) ==
    CASE shape.k \in {"unit_struct", "tuple_struct", "struct"} ->
             serialize_compound(ser, shape, value)
      [] shape.k = "untagged" ->
             Serializer_serialize(ser, shape.inner[value.i], value.v)
      [] OTHER -> SerErr("ExpectedStruct", ser)

\* serde_sexpr::to_string (pretty = FALSE) and to_string_pretty (TRUE):
\* [ok, err, buf].
to_string_with(pretty, shape, value) ==
    LET output(r) ==
            [ok |-> r.ok, err |-> r.err,
             buf |-> IF r.ok THEN r.ser.buf ELSE << >>]
    IN  output(Serializer_serialize(Serializer_new(pretty), shape, value))

to_string(shape, value) == to_string_with(FALSE, shape, value)

to_string_pretty(shape, value) == to_string_with(TRUE, shape, value)

\* ------------------------------------------------------------ schemas

\* The names of the test types of src/tests/test.rs and src/src/untagged.rs,
\* of the example of src/src/option.rs and of the types declared below, their
\* fields and their variants, as texts.
Name ==
    [locked |-> <<"l", "o", "c", "k", "e", "d">>,
     attr |-> <<"a", "t", "t", "r">>,
     descr |-> <<"d", "e", "s", "c", "r">>,
     at |-> <<"a", "t">>,
     x |-> <<"x">>,
     y |-> <<"y">>,
     rot |-> <<"r", "o", "t">>,
     size |-> <<"s", "i", "z", "e">>,
     width |-> <<"w", "i", "d", "t", "h">>,
     height |-> <<"h", "e", "i", "g", "h", "t">>,
     smd |-> <<"s", "m", "d">>,
     circle |-> <<"c", "i", "r", "c", "l", "e">>,
     rect |-> <<"r", "e", "c", "t">>,
     drill |-> <<"d", "r", "i", "l", "l">>,
     oval |-> <<"o", "v", "a", "l">>,
     drill1 |-> <<"d", "r", "i", "l", "l", "1">>,
     drill2 |-> <<"d", "r", "i", "l", "l", "2">>,
     pad |-> <<"p", "a", "d">>,
     index |-> <<"i", "n", "d", "e", "x">>,
     ty |-> <<"t", "y">>,
     shape |-> <<"s", "h", "a", "p", "e">>,
     layers |-> <<"l", "a", "y", "e", "r", "s">>,
     footprint |-> <<"f", "o", "o", "t", "p", "r", "i", "n", "t">>,
     library_link |-> <<"l", "i", "b", "r", "a", "r", "y", "_", "l", "i",
              "n", "k">>,
     foo |-> <<"f", "o", "o">>,
     bar |-> <<"b", "a", "r">>,
     font |-> <<"f", "o", "n", "t">>,
     thickness |-> <<"t", "h", "i", "c", "k", "n", "e", "s", "s">>,
     bold |-> <<"b", "o", "l", "d">>,
     thru_hole |-> <<"t", "h", "r", "u", "-", "h", "o", "l", "e">>,
     flags |-> <<"f", "l", "a", "g", "s">>,
     pins |-> <<"p", "i", "n", "s">>,
     toggle |-> <<"t", "o", "g", "g", "l", "e">>,
     swap |-> <<"s", "w", "a", "p">>,
     pin1 |-> <<"p", "i", "n", "1">>,
     mark |-> <<"m", "a", "r", "k">>,
     keep |-> <<"k", "e", "e", "p">>,
     note |-> <<"n", "o", "t", "e">>,
     pair |-> <<"p", "a", "i", "r">>,
     item |-> <<"i", "t", "e", "m">>,
     net |-> <<"n", "e", "t">>,
     code |-> <<"c", "o", "d", "e">>,
     via |-> <<"v", "i", "a">>,
     lock |-> <<"l", "o", "c", "k">>,
     layer |-> <<"l", "a", "y", "e", "r">>,
     zone |-> <<"z", "o", "n", "e">>,
     fill |-> <<"f", "i", "l", "l">>,
     group |-> <<"g", "r", "o", "u", "p">>]


\* The names of the fields of Flags, in declaration order.
FlagNames == << <<"a">>, <<"b">>, <<"c">>, <<"d">>, <<"e">> >>

\* How many of them Flags declares.
NumFlags == 3

\* The types the encoder and the decoder are used with: those of
\* src/tests/test.rs,
\*   struct Locked;  struct Attribute(String);  struct Description(String);
\*   struct Position { x: f32, y: f32, rot: Option<i16> }
\*   struct Size { width: f32, height: f32 }
\*   enum PadType { ThroughHole, Smd }  enum PadShape { Circle, Rect }
\*   struct Drill { oval: bool, drill1: f32, drill2: Option<f32> }
\*   struct Pad { index, ty, shape, at, size, drill, layers }
\*   struct Footprint { library_link: String, pads: Vec<Pad> }, pads
\*   renamed to "" and marked default,
\* with every Option under serde_sexpr::Option; those of the tests of
\* src/src/untagged.rs,
\*   struct Foo;  struct Bar;
\*   untagged! { enum FooOrBar { Foo(Foo), Bar(Bar) } }
\* those of the example of src/src/option.rs,
\*   struct Size(f32, f32);  struct Thickness(f32);
\*   struct Font { size: Size, thickness: Option<Thickness>, bold: bool }
\* and thirteen declared like them,
\*   struct Flags { a: bool, b: bool, ... }
\*   struct Pins { swap: bool, pin1: bool }
\*   struct Toggle(bool, f32);
\*   struct Mark { keep: bool, note: Option<String> }
\*   struct Pair(f32, Option<String>);
\*   struct Item { index: V }, V a type that asks deserialize_any and
\*   takes what it is handed
\*   struct Net { code: u8 }
\*   struct Via { lock: Option<Locked>, layer: Option<String> }, both
\*   under serde_sexpr::Option
\*   struct Zone { fill: Fill, layer: String } with
\*   enum Fill { Fill, Layer }, renamed to "fill" and "layer"
\*   struct Group { layers: Vec<Literal> }
\*   struct Count(i16), renamed to "foo"
\*   untagged! { enum FooOrCount { Foo(Foo), Count(Count) } }
\*   untagged! { enum FooOrLiteral { Foo(Foo), Literal(Literal) } }
Type ==
    LET f32       == FloatType
        i16       == IntType(TRUE, 16)
        Position  == Struct(Name.at, <<Name.x, Name.y, Name.rot>>,
                            <<f32, f32, OptionWith(i16)>>, {})
        Size      == Struct(Name.size, <<Name.width, Name.height>>,
                            <<f32, f32>>, {})
        PadType   == UnitEnum(<<Name.thru_hole, Name.smd>>)
        PadShape  == UnitEnum(<<Name.circle, Name.rect>>)
        Drill     == Struct(Name.drill,
                            <<Name.oval, Name.drill1, Name.drill2>>,
                            <<Bool, f32, OptionWith(f32)>>, {})
        Pad       == Struct(Name.pad,
                            <<Name.index, Name.ty, Name.shape, Name.at,
                              Name.size, Name.drill, Name.layers>>,
                            <<Literal, PadType, PadShape, Position, Size,
                              OptionWith(Drill), Vec(String)>>,
                            {})
        Foo       == UnitStruct(Name.foo)
        Bar       == UnitStruct(Name.bar)
        Count     == TupleStruct(Name.foo, <<i16>>)
        FontSize  == TupleStruct(Name.size, <<f32, f32>>)
        Thickness == TupleStruct(Name.thickness, <<f32>>)
    IN  [Locked       |-> UnitStruct(Name.locked),
         Attribute    |-> TupleStruct(Name.attr, <<String>>),
         Description  |-> TupleStruct(Name.descr, <<String>>),
         Position     |-> Position,
         Size         |-> Size,
         PadType      |-> PadType,
         PadShape     |-> PadShape,
         Drill        |-> Drill,
         Pad          |-> Pad,
         Footprint    |-> Struct(Name.footprint,
                                 <<Name.library_link, << >> >>,
                                 <<String, Vec(Pad)>>, {2}),
         Foo          |-> Foo,
         Bar          |-> Bar,
         FooOrBar     |-> Untagged(<<Foo, Bar>>),
         Font         |-> Struct(Name.font,
                                 <<Name.size, Name.thickness, Name.bold>>,
                                 <<FontSize, OptionWith(Thickness), Bool>>,
                                 {}),
         Flags        |-> Struct(Name.flags, SubSeq(FlagNames, 1, NumFlags),
                                 [i \in 1..NumFlags |-> Bool], {}),
         Pins         |-> Struct(Name.pins, <<Name.swap, Name.pin1>>,
                                 <<Bool, Bool>>, {}),
         Toggle       |-> TupleStruct(Name.toggle, <<Bool, f32>>),
         Mark         |-> Struct(Name.mark, <<Name.keep, Name.note>>,
                                 <<Bool, NativeOption(String)>>, {}),
         Pair         |-> TupleStruct(Name.pair,
                                      <<f32, NativeOption(String)>>),
         Item         |-> Struct(Name.item, <<Name.index>>, <<Content>>, {}),
         Net          |-> Struct(Name.net, <<Name.code>>,
                                 <<IntType(FALSE, 8)>>, {}),
         Via          |-> Struct(Name.via, <<Name.lock, Name.layer>>,
                                 <<OptionWith(UnitStruct(Name.locked)),
                                   OptionWith(String)>>,
                                 {}),
         Zone         |-> Struct(Name.zone, <<Name.fill, Name.layer>>,
                                 <<UnitEnum(<<Name.fill, Name.layer>>),
                                   String>>,
                                 {}),
         Group        |-> Struct(Name.group, <<Name.layers>>,
                                 <<Vec(Literal)>>, {}),
         Count        |-> Count,
         FooOrCount   |-> Untagged(<<Foo, Count>>),
         FooOrLiteral |-> Untagged(<<Foo, Literal>>)]

\* ------------------------------------------------------------- samples

\* The strings of the values of the tests of src/tests/test.rs.
Text ==
    [F_Cu |-> <<"F", ".", "C", "u">>,
     Capacitor |-> <<"C", "a", "p", "a", "c", "i", "t", "o", "r", "_", "S",
              "M", "D", ":", "C", "_", "0", "4", "0", "2">>,
     Hello |-> <<"H", "e", "l", "l", "o", " ", "\"", "W", "o", "r", "l", "d",
              "\"", ",", " ", "t", "h", "i", "s", " ", "\"", "\\", "\"", " ",
              "i", "s", " ", "a", "n", " ", "a", "m", "a", "z", "i", "n",
              "g", " ", "b", "a", "c", "k", "s", "p", "a", "c", "e", "!",
              " ", "\\">>]

\* Position { x, y, rot }
PositionVal(x, y, rot) == StructVal(<<x, y, rot>>)

\* Drill { oval, drill1, drill2 }
DrillVal(oval, drill1, drill2) == StructVal(<<BoolVal(oval), drill1, drill2>>)

\* Pad { index, ty, shape: Rect, at, size: 1.27 x 1.27, drill, layers: F.Cu }
PadVal(index, ty, at, drill) ==
    StructVal(<<LiteralVal(IntVal(index)), VariantVal(ty), VariantVal(2), at,
                StructVal(<<FloatVal(127, 2), FloatVal(127, 2)>>), drill,
                SeqVal(<<StrVal(Text.F_Cu)>>)>>)

\* The pads of the tests of src/tests/test.rs.
PadWithoutDrill ==
    PadVal(1, 2, PositionVal(FloatVal(0, 0), FloatVal(0, 0), None), None)

PadWithDrill ==
    PadVal(1, 1, PositionVal(FloatVal(0, 0), FloatVal(0, 0), None),
           Some(DrillVal(FALSE, FloatVal(635, 3), None)))

PadWithOvalDrill ==
    PadVal(1, 1, PositionVal(FloatVal(0, 0), FloatVal(0, 0), None),
           Some(DrillVal(TRUE, FloatVal(635, 3), Some(FloatVal(847, 3)))))

SecondPad ==
    PadVal(2, 2, PositionVal(FloatVal(254, 2), FloatVal(0, 0), None), None)

\* Footprint { library_link, pads }
FootprintVal(library_link, pads) ==
    StructVal(<<StrVal(library_link), SeqVal(pads)>>)

\* Font { size: 1 x 1, thickness, bold }
FontVal(thickness, bold) ==
    StructVal(<<TupleVal(<<FloatVal(1, 0), FloatVal(1, 0)>>), thickness,
                BoolVal(bold)>>)

\* Flags with exactly the fields of the set S true.
FlagsVal(S) == StructVal([i \in 1..NumFlags |-> BoolVal(i \in S)])

\* The values the encoder is started on, with their type.
Samples ==
    {
    [shape |-> Type.Locked, value |-> UnitVal],
    [shape |-> Type.Attribute, value |-> TupleVal(<<StrVal(Name.smd)>>)],
    [shape |-> Type.Attribute, value |-> TupleVal(<<StrVal(<< >>)>>)],
    [shape |-> Type.Attribute, value |-> TupleVal(<<StrVal(Text.F_Cu)>>)],
    [shape |-> Type.Description, value |-> TupleVal(<<StrVal(Text.Hello)>>)],
    [shape |-> Type.Position,
     value |-> PositionVal(FloatVal(123, 2), FloatVal(-456, 2), None)],
    [shape |-> Type.Position,
     value |-> PositionVal(FloatVal(123, 2), FloatVal(-456, 2),
                           Some(IntVal(-90)))],
    [shape |-> Type.Position,
     value |-> PositionVal(FloatVal(0, 0), FloatVal(-5, 1), Some(IntVal(0)))],
    [shape |-> Type.Size,
     value |-> StructVal(<<FloatVal(123, 2), FloatVal(456, 2)>>)],
    [shape |-> Type.Drill, value |-> DrillVal(FALSE, FloatVal(635, 3), None)],
    [shape |-> Type.Drill, value |-> DrillVal(TRUE, FloatVal(635, 3), None)],
    [shape |-> Type.Drill,
     value |-> DrillVal(FALSE, FloatVal(635, 3), Some(FloatVal(847, 3)))],
    [shape |-> Type.Drill,
     value |-> DrillVal(TRUE, FloatVal(635, 3), Some(FloatVal(847, 3)))],
    [shape |-> Type.Pad, value |-> PadWithoutDrill],
    [shape |-> Type.Pad, value |-> PadWithDrill],
    [shape |-> Type.Pad, value |-> PadWithOvalDrill],
    [shape |-> Type.Font, value |-> FontVal(None, FALSE)],
    [shape |-> Type.Font, value |-> FontVal(None, TRUE)],
    [shape |-> Type.Font,
     value |-> FontVal(Some(TupleVal(<<FloatVal(15, 2)>>)), FALSE)],
    [shape |-> Type.Font,
     value |-> FontVal(Some(TupleVal(<<FloatVal(15, 2)>>)), TRUE)],
    [shape |-> Type.FooOrBar, value |-> UntaggedVal(1, UnitVal)],
    [shape |-> Type.FooOrBar, value |-> UntaggedVal(2, UnitVal)],
    [shape |-> Type.Footprint, value |-> FootprintVal(Name.library_link, << >>)],
    [shape |-> Type.Footprint, value |-> FootprintVal(Name.smd, <<PadWithOvalDrill>>)],
    [shape |-> Type.Toggle, value |-> TupleVal(<<BoolVal(TRUE), FloatVal(1, 0)>>)],
    [shape |-> Type.Toggle, value |-> TupleVal(<<BoolVal(FALSE), FloatVal(1, 0)>>)],
    [shape |-> String, value |-> StrVal(Name.smd)],
    [shape |-> Bool, value |-> BoolVal(TRUE)],
    [shape |-> FloatType, value |-> FloatVal(15, 1)],
    [shape |-> IntType(TRUE, 16), value |-> IntVal(-90)],
    [shape |-> Vec(String), value |-> SeqVal(<<StrVal(Name.smd)>>)],
    [shape |-> Literal, value |-> LiteralVal(IntVal(1))],
    [shape |-> NativeOption(String), value |-> None],
    [shape |-> NativeOption(String), value |-> Some(StrVal(Name.smd))],
    [shape |-> Type.PadType, value |-> VariantVal(2)],
    [shape |-> Type.Mark, value |-> StructVal(<<BoolVal(TRUE), None>>)],
    [shape |-> Type.Mark, value |-> StructVal(<<BoolVal(FALSE), Some(StrVal(Name.smd))>>)],
    [shape |-> Type.Pair, value |-> TupleVal(<<FloatVal(1, 0), Some(StrVal(Name.smd))>>)],
    [shape |-> Type.Zone, value |-> StructVal(<<VariantVal(1), StrVal(<<"a">>)>>)],
    [shape |-> Type.Group, value |-> StructVal(<<SeqVal(<<LiteralVal(IntVal(1)), LiteralVal(StrVal(<<"a">>))>>)>>)]
    }

\* The most pads of a Footprint the encoder is started on.
MaxPads == 2

\* The lists of at most MaxPads pads, each the first or the second pad of
\* the footprint tests.
PadLists ==
    UNION {[1..n -> {PadWithoutDrill, SecondPad}] : n \in 0..MaxPads}

\* The orders in which an input can list flags of Flags: the sequences of
\* field positions without repetition.
FlagOrders ==
    UNION {{o \in [1..n -> 1..NumFlags] :
               \A i, j \in 1..n : i # j => o[i] # o[j]} : n \in 0..NumFlags}

\* The input that lists the flags of the order o.
FlagText(o) ==
    <<"(">> \o Name.flags
        \o Cat([i \in 1..Len(o) |-> <<" ">> \o FlagNames[o[i]]])
        \o <<")">>

\* The longest string write_str is started on.
MaxStrLen == 4

\* The characters of these strings: a letter, the space, the quote and the
\* backslash.
StrAlphabet == {"a", " ", "\"", "\\"}

Strings == UNION {[1..n -> StrAlphabet] : n \in 0..MaxStrLen}

\* The longest token Item is decoded from.
MaxTokenLen == 3

\* The tokens Item is decoded from: of a digit, the characters peek_token
\* tells apart, a letter and the space.
Tokens ==
    UNION {[1..n -> {"1", ".", "-", "a", "(", " "}] : n \in 0..MaxTokenLen}

\* The numbers Net is decoded from: of two digits, the sign, the point and
\* a letter.
Numbers ==
    UNION {[1..n -> {"2", "9", "-", ".", "a"}] : n \in 0..MaxTokenLen}

\* The texts the decoder is started on, with the type asked for.
Inputs ==
    {
    \* (locked)
    [shape |-> Type.Locked,
     text |-> <<"(", "l", "o", "c", "k", "e", "d", ")">>],
    \* (locked) extra
    [shape |-> Type.Locked,
     text |-> <<"(", "l", "o", "c", "k", "e", "d", ")", " ", "e", "x", "t",
               "r", "a">>],
    \* (locked)  
    [shape |-> Type.Locked,
     text |-> <<"(", "l", "o", "c", "k", "e", "d", ")", " ", " ">>],
    \* (locked) )
    [shape |-> Type.Locked,
     text |-> <<"(", "l", "o", "c", "k", "e", "d", ")", " ", ")">>],
    \* (locked
    [shape |-> Type.Locked,
     text |-> <<"(", "l", "o", "c", "k", "e", "d">>],
    \* (lock)
    [shape |-> Type.Locked,
     text |-> <<"(", "l", "o", "c", "k", ")">>],
    \* (lockedx)
    [shape |-> Type.Locked,
     text |-> <<"(", "l", "o", "c", "k", "e", "d", "x", ")">>],
    \* locked
    [shape |-> Type.Locked,
     text |-> <<"l", "o", "c", "k", "e", "d">>],
    \* (the empty text)
    [shape |-> Type.Locked,
     text |-> <<>>],
    \* (attr smd)
    [shape |-> Type.Attribute,
     text |-> <<"(", "a", "t", "t", "r", " ", "s", "m", "d", ")">>],
    \* (attr "a b")
    [shape |-> Type.Attribute,
     text |-> <<"(", "a", "t", "t", "r", " ", "\"", "a", " ", "b", "\"",
               ")">>],
    \* (attr)
    [shape |-> Type.Attribute,
     text |-> <<"(", "a", "t", "t", "r", ")">>],
    \* (attr smd rect)
    [shape |-> Type.Attribute,
     text |-> <<"(", "a", "t", "t", "r", " ", "s", "m", "d", " ", "r", "e",
               "c", "t", ")">>],
    \* (attr smd) x
    [shape |-> Type.Attribute,
     text |-> <<"(", "a", "t", "t", "r", " ", "s", "m", "d", ")", " ", "x">>],
    \* (at 1.23 -4.56)
    [shape |-> Type.Position,
     text |-> <<"(", "a", "t", " ", "1", ".", "2", "3", " ", "-", "4", ".",
               "5", "6", ")">>],
    \* (at 1.23 -4.56 -90)
    [shape |-> Type.Position,
     text |-> <<"(", "a", "t", " ", "1", ".", "2", "3", " ", "-", "4", ".",
               "5", "6", " ", "-", "9", "0", ")">>],
    \* (at 1.23 -4.56 abc)
    [shape |-> Type.Position,
     text |-> <<"(", "a", "t", " ", "1", ".", "2", "3", " ", "-", "4", ".",
               "5", "6", " ", "a", "b", "c", ")">>],
    \* (at 1.23 -4.56 99999)
    [shape |-> Type.Position,
     text |-> <<"(", "a", "t", " ", "1", ".", "2", "3", " ", "-", "4", ".",
               "5", "6", " ", "9", "9", "9", "9", "9", ")">>],
    \* (at 1.23)
    [shape |-> Type.Position,
     text |-> <<"(", "a", "t", " ", "1", ".", "2", "3", ")">>],
    \* (at 1.23 -4.56 -90 7)
    [shape |-> Type.Position,
     text |-> <<"(", "a", "t", " ", "1", ".", "2", "3", " ", "-", "4", ".",
               "5", "6", " ", "-", "9", "0", " ", "7", ")">>],
    \* (at 1 2 3) (at)
    [shape |-> Type.Position,
     text |-> <<"(", "a", "t", " ", "1", " ", "2", " ", "3", ")", " ", "(",
               "a", "t", ")">>],
    \* (size 1.23 4.56)
    [shape |-> Type.Size,
     text |-> <<"(", "s", "i", "z", "e", " ", "1", ".", "2", "3", " ", "4",
               ".", "5", "6", ")">>],
    \* (size 1.23 4.56
    [shape |-> Type.Size,
     text |-> <<"(", "s", "i", "z", "e", " ", "1", ".", "2", "3", " ", "4",
               ".", "5", "6">>],
    \* (drill oval 0.635 0.847)
    [shape |-> Type.Drill,
     text |-> <<"(", "d", "r", "i", "l", "l", " ", "o", "v", "a", "l", " ",
               "0", ".", "6", "3", "5", " ", "0", ".", "8", "4", "7", ")">>],
    \* (drill 0.635)
    [shape |-> Type.Drill,
     text |-> <<"(", "d", "r", "i", "l", "l", " ", "0", ".", "6", "3", "5",
               ")">>],
    \* (drill oval 0.635)
    [shape |-> Type.Drill,
     text |-> <<"(", "d", "r", "i", "l", "l", " ", "o", "v", "a", "l", " ",
               "0", ".", "6", "3", "5", ")">>],
    \* (drill 0.635 0.847)
    [shape |-> Type.Drill,
     text |-> <<"(", "d", "r", "i", "l", "l", " ", "0", ".", "6", "3", "5",
               " ", "0", ".", "8", "4", "7", ")">>],
    \* (drill oval)
    [shape |-> Type.Drill,
     text |-> <<"(", "d", "r", "i", "l", "l", " ", "o", "v", "a", "l", ")">>],
    \* (drill ovals 0.635)
    [shape |-> Type.Drill,
     text |-> <<"(", "d", "r", "i", "l", "l", " ", "o", "v", "a", "l", "s",
               " ", "0", ".", "6", "3", "5", ")">>],
    \* (drill drill2 0.635)
    [shape |-> Type.Drill,
     text |-> <<"(", "d", "r", "i", "l", "l", " ", "d", "r", "i", "l", "l",
               "2", " ", "0", ".", "6", "3", "5", ")">>],
    \* (drill 0.635 oval)
    [shape |-> Type.Drill,
     text |-> <<"(", "d", "r", "i", "l", "l", " ", "0", ".", "6", "3", "5",
               " ", "o", "v", "a", "l", ")">>],
    \* (font (size 1 1) bold)
    [shape |-> Type.Font,
     text |-> <<"(", "f", "o", "n", "t", " ", "(", "s", "i", "z", "e", " ",
               "1", " ", "1", ")", " ", "b", "o", "l", "d", ")">>],
    \* (font (size 1 1) (thickness 0.15) bold)
    [shape |-> Type.Font,
     text |-> <<"(", "f", "o", "n", "t", " ", "(", "s", "i", "z", "e", " ",
               "1", " ", "1", ")", " ", "(", "t", "h", "i", "c", "k", "n",
               "e", "s", "s", " ", "0", ".", "1", "5", ")", " ", "b", "o",
               "l", "d", ")">>],
    \* (font (size 1 1) (thickness 0.15))
    [shape |-> Type.Font,
     text |-> <<"(", "f", "o", "n", "t", " ", "(", "s", "i", "z", "e", " ",
               "1", " ", "1", ")", " ", "(", "t", "h", "i", "c", "k", "n",
               "e", "s", "s", " ", "0", ".", "1", "5", ")", ")">>],
    \* (font (size 1 1) (thickness) bold)
    [shape |-> Type.Font,
     text |-> <<"(", "f", "o", "n", "t", " ", "(", "s", "i", "z", "e", " ",
               "1", " ", "1", ")", " ", "(", "t", "h", "i", "c", "k", "n",
               "e", "s", "s", ")", " ", "b", "o", "l", "d", ")">>],
    \* (font (size 1 1) (thickness abc) bold)
    [shape |-> Type.Font,
     text |-> <<"(", "f", "o", "n", "t", " ", "(", "s", "i", "z", "e", " ",
               "1", " ", "1", ")", " ", "(", "t", "h", "i", "c", "k", "n",
               "e", "s", "s", " ", "a", "b", "c", ")", " ", "b", "o", "l",
               "d", ")">>],
    \* (font (size 1 1) (thick 1) bold)
    [shape |-> Type.Font,
     text |-> <<"(", "f", "o", "n", "t", " ", "(", "s", "i", "z", "e", " ",
               "1", " ", "1", ")", " ", "(", "t", "h", "i", "c", "k", " ",
               "1", ")", " ", "b", "o", "l", "d", ")">>],
    \* (font (size 1 1))
    [shape |-> Type.Font,
     text |-> <<"(", "f", "o", "n", "t", " ", "(", "s", "i", "z", "e", " ",
               "1", " ", "1", ")", ")">>],
    \* (font bold)
    [shape |-> Type.Font,
     text |-> <<"(", "f", "o", "n", "t", " ", "b", "o", "l", "d", ")">>],
    \* (foo)
    [shape |-> Type.FooOrBar,
     text |-> <<"(", "f", "o", "o", ")">>],
    \* (bar)
    [shape |-> Type.FooOrBar,
     text |-> <<"(", "b", "a", "r", ")">>],
    \* (baz)
    [shape |-> Type.FooOrBar,
     text |-> <<"(", "b", "a", "z", ")">>],
    \* (foo) x
    [shape |-> Type.FooOrBar,
     text |-> <<"(", "f", "o", "o", ")", " ", "x">>],
    \* (bar) 
    [shape |-> Type.FooOrBar,
     text |-> <<"(", "b", "a", "r", ")", " ">>],
    \* foo
    [shape |-> Type.FooOrBar,
     text |-> <<"f", "o", "o">>],
    \* ()
    [shape |-> Type.FooOrBar,
     text |-> <<"(", ")">>],
    \* (foo
    [shape |-> Type.FooOrBar,
     text |-> <<"(", "f", "o", "o">>],
    \* (foo)
    [shape |-> Type.FooOrCount,
     text |-> <<"(", "f", "o", "o", ")">>],
    \* (foo 1)
    [shape |-> Type.FooOrCount,
     text |-> <<"(", "f", "o", "o", " ", "1", ")">>],
    \* (bar)
    [shape |-> Type.FooOrCount,
     text |-> <<"(", "b", "a", "r", ")">>],
    \* (foo)
    [shape |-> Type.FooOrLiteral,
     text |-> <<"(", "f", "o", "o", ")">>],
    \* foo
    [shape |-> Type.FooOrLiteral,
     text |-> <<"f", "o", "o">>],
    \* (footprint "a:b")
    [shape |-> Type.Footprint,
     text |-> <<"(", "f", "o", "o", "t", "p", "r", "i", "n", "t", " ", "\"",
               "a", ":", "b", "\"", ")">>],
    \* (footprint "a:b" )
    [shape |-> Type.Footprint,
     text |-> <<"(", "f", "o", "o", "t", "p", "r", "i", "n", "t", " ", "\"",
               "a", ":", "b", "\"", " ", ")">>],
    \* (footprint "a:b" (locked))
    [shape |-> Type.Footprint,
     text |-> <<"(", "f", "o", "o", "t", "p", "r", "i", "n", "t", " ", "\"",
               "a", ":", "b", "\"", " ", "(", "l", "o", "c", "k", "e", "d",
               ")", ")">>],
    \* (footprint "a:b" (pad 1 smd rect (at 0 0) (size 1 1) (layers F)))
    [shape |-> Type.Footprint,
     text |-> <<"(", "f", "o", "o", "t", "p", "r", "i", "n", "t", " ", "\"",
               "a", ":", "b", "\"", " ", "(", "p", "a", "d", " ", "1", " ",
               "s", "m", "d", " ", "r", "e", "c", "t", " ", "(", "a", "t",
               " ", "0", " ", "0", ")", " ", "(", "s", "i", "z", "e", " ",
               "1", " ", "1", ")", " ", "(", "l", "a", "y", "e", "r", "s",
               " ", "F", ")", ")", ")">>],
    \* (footprint library_link)
    [shape |-> Type.Footprint,
     text |-> <<"(", "f", "o", "o", "t", "p", "r", "i", "n", "t", " ", "l",
               "i", "b", "r", "a", "r", "y", "_", "l", "i", "n", "k", ")">>],
    \* (toggle 1)
    [shape |-> Type.Toggle,
     text |-> <<"(", "t", "o", "g", "g", "l", "e", " ", "1", ")">>],
    \* (toggle)
    [shape |-> Type.Toggle,
     text |-> <<"(", "t", "o", "g", "g", "l", "e", ")">>],
    \* String asked for at the root, on abc
    [shape |-> String,
     text |-> <<"a", "b", "c">>],
    \* String asked for at the root, on (attr x)
    [shape |-> String,
     text |-> <<"(", "a", "t", "t", "r", " ", "x", ")">>],
    \* Bool asked for at the root, on locked
    [shape |-> Bool,
     text |-> <<"l", "o", "c", "k", "e", "d">>],
    \* FloatType asked for at the root, on 1.5
    [shape |-> FloatType,
     text |-> <<"1", ".", "5">>],
    \* IntType(TRUE, 16) asked for at the root, on -90
    [shape |-> IntType(TRUE, 16),
     text |-> <<"-", "9", "0">>],
    \* Vec(String) asked for at the root, on (layers a)
    [shape |-> Vec(String),
     text |-> <<"(", "l", "a", "y", "e", "r", "s", " ", "a", ")">>],
    \* Literal asked for at the root, on 1
    [shape |-> Literal,
     text |-> <<"1">>],
    \* NativeOption(String) asked for at the root, on abc
    [shape |-> NativeOption(String),
     text |-> <<"a", "b", "c">>],
    \* Type.PadType asked for at the root, on smd
    [shape |-> Type.PadType,
     text |-> <<"s", "m", "d">>],
    \* Type.PadType asked for at the root, on (smd)
    [shape |-> Type.PadType,
     text |-> <<"(", "s", "m", "d", ")">>],
    \* Type.PadType asked for at the root, on (round)
    [shape |-> Type.PadType,
     text |-> <<"(", "r", "o", "u", "n", "d", ")">>],
    \* (mark)
    [shape |-> Type.Mark,
     text |-> <<"(", "m", "a", "r", "k", ")">>],
    \* (mark abc)
    [shape |-> Type.Mark,
     text |-> <<"(", "m", "a", "r", "k", " ", "a", "b", "c", ")">>],
    \* (mark note)
    [shape |-> Type.Mark,
     text |-> <<"(", "m", "a", "r", "k", " ", "n", "o", "t", "e", ")">>],
    \* (pair 1)
    [shape |-> Type.Pair,
     text |-> <<"(", "p", "a", "i", "r", " ", "1", ")">>],
    \* 
    [shape |-> Type.Position,
     text |-> <<>>],
    \* at 1 2
    [shape |-> Type.Position,
     text |-> <<"a", "t", " ", "1", " ", "2">>],
    \* (size 1 2)
    [shape |-> Type.Position,
     text |-> <<"(", "s", "i", "z", "e", " ", "1", " ", "2", ")">>],
    \* (atx 1 2)
    [shape |-> Type.Position,
     text |-> <<"(", "a", "t", "x", " ", "1", " ", "2", ")">>],
    \* (via (locked) a)
    [shape |-> Type.Via,
     text |-> <<"(", "v", "i", "a", " ", "(", "l", "o", "c", "k", "e", "d",
               ")", " ", "a", ")">>],
    \* (via (locked x) a)
    [shape |-> Type.Via,
     text |-> <<"(", "v", "i", "a", " ", "(", "l", "o", "c", "k", "e", "d",
               " ", "x", ")", " ", "a", ")">>],
    \* (via a)
    [shape |-> Type.Via,
     text |-> <<"(", "v", "i", "a", " ", "a", ")">>],
    \* (via "abc)
    [shape |-> Type.Via,
     text |-> <<"(", "v", "i", "a", " ", "\"", "a", "b", "c", ")">>],
    \* (via)
    [shape |-> Type.Via,
     text |-> <<"(", "v", "i", "a", ")">>],
    \* (font (size 1 1 2) bold)
    [shape |-> Type.Font,
     text |-> <<"(", "f", "o", "n", "t", " ", "(", "s", "i", "z", "e", " ",
               "1", " ", "1", " ", "2", ")", " ", "b", "o", "l", "d", ")">>],
    \* (font (size 1 1) (thickness 1 2))
    [shape |-> Type.Font,
     text |-> <<"(", "f", "o", "n", "t", " ", "(", "s", "i", "z", "e", " ",
               "1", " ", "1", ")", " ", "(", "t", "h", "i", "c", "k", "n",
               "e", "s", "s", " ", "1", " ", "2", ")", ")">>],
    \* (via layer)
    [shape |-> Type.Via,
     text |-> <<"(", "v", "i", "a", " ", "l", "a", "y", "e", "r", ")">>],
    \* (zone fill layer)
    [shape |-> Type.Zone,
     text |-> <<"(", "z", "o", "n", "e", " ", "f", "i", "l", "l", " ", "l",
               "a", "y", "e", "r", ")">>],
    \* (zone layer fill)
    [shape |-> Type.Zone,
     text |-> <<"(", "z", "o", "n", "e", " ", "l", "a", "y", "e", "r", " ",
               "f", "i", "l", "l", ")">>],
    \* (zone "fill" a)
    [shape |-> Type.Zone,
     text |-> <<"(", "z", "o", "n", "e", " ", "\"", "f", "i", "l", "l", "\"",
               " ", "a", ")">>],
    \* (drill oval0.635)
    [shape |-> Type.Drill,
     text |-> <<"(", "d", "r", "i", "l", "l", " ", "o", "v", "a", "l", "0",
               ".", "6", "3", "5", ")">>],
    \* (drill drill2.5 1)
    [shape |-> Type.Drill,
     text |-> <<"(", "d", "r", "i", "l", "l", " ", "d", "r", "i", "l", "l",
               "2", ".", "5", " ", "1", ")">>],
    \* (group (layers 1 2))
    [shape |-> Type.Group,
     text |-> <<"(", "g", "r", "o", "u", "p", " ", "(", "l", "a", "y", "e",
               "r", "s", " ", "1", " ", "2", ")", ")">>],
    \* (group (layers 1 2 ))
    [shape |-> Type.Group,
     text |-> <<"(", "g", "r", "o", "u", "p", " ", "(", "l", "a", "y", "e",
               "r", "s", " ", "1", " ", "2", " ", ")", ")">>],
    \* (group (layers a 2))
    [shape |-> Type.Group,
     text |-> <<"(", "g", "r", "o", "u", "p", " ", "(", "l", "a", "y", "e",
               "r", "s", " ", "a", " ", "2", ")", ")">>],
    \* (descr "é\"a"), é the bytes C3 A9
    [shape |-> Type.Description,
     text |-> <<"(", "d", "e", "s", "c", "r", " ", "\"", "C3", "A9", "\\",
               "\"", "a", "\"", ")">>],
    \* (descr "éé\"a")
    [shape |-> Type.Description,
     text |-> <<"(", "d", "e", "s", "c", "r", " ", "\"", "C3", "A9", "C3",
               "A9", "\\", "\"", "a", "\"", ")">>]
    }

\* ------------------------------------------------------ state machine

VARIABLES
    shape,      \* the type T of to_string::<T> and from_str::<T>
    value,      \* the value handed to the encoder
    out,        \* what the encoder returned
    base,       \* the text as the encoder or the caller wrote it
    text,       \* the text handed to the decoder
    inserted,   \* how many whitespace characters text has on top of base
    pc,         \* where the caller is
    sx,         \* the SExpr of the top-level struct: input, index, skip_to
    vals,       \* the fields the visitor of the top-level struct has got
    keys,       \* the indices next_key_seed produced a key for
    last,       \* the last call of next_value_seed of the top-level struct
    res,        \* what the decoder returned
    VARIANTS,   \* the static VARIANTS of the untagged! enum: state, value
    probes,     \* how many times the initialiser of VARIANTS has run
    threads     \* the threads that decode the untagged! enum

caller ==
    <<shape, value, out, base, text, inserted, pc, sx, vals, keys, last, res>>

lazy == <<VARIANTS, probes, threads>>

vars == <<caller, lazy>>

\* The threads of the process that decode the untagged! enum.
NumThreads == 2

Threads == 1..NumThreads

\* The most decodes one thread makes.
MaxCalls == 2

\* SyncLazy::new(init): nothing computed yet.
Lazy_new == [state |-> "Incomplete", value |-> [ok |-> FALSE, names |-> << >>]]

\* The most whitespace characters a caller adds to a text.
MaxInserted == 1

\* The longest text a caller adds whitespace to.
MaxWsText == 24

\* The result of a call that was not made yet.
NoResult == Err("", << >>, FALSE)

\* The state of a process before any call, at p, with the type s, the
\* value v and the text t.
Start(s, v, t, p) ==
    /\ shape = s
    /\ value = v
    /\ out = [ok |-> FALSE, err |-> "", buf |-> << >>, pretty |-> FALSE]
    /\ base = t
    /\ text = t
    /\ inserted = 0
    /\ pc = p
    /\ sx = [input |-> << >>, index |-> 0, skip_to |-> NoSkip]
    /\ vals = << >>
    /\ keys = << >>
    /\ last = [index |-> -1, input |-> << >>, skip_to |-> NoSkip,
               after |-> << >>, skip_after |-> NoSkip, wrapped |-> FALSE,
               attempt |-> NoResult, result |-> NoResult]
    /\ res = NoResult
    /\ VARIANTS = Lazy_new
    /\ probes = 0
    /\ threads = [i \in Threads |->
                     [pc |-> "idle", variants |-> Lazy_new.value,
                      calls |-> 0, waited |-> FALSE, result |-> NoResult]]

\* A caller holds a value to encode, a text to decode, or a string to
\* write with write_str.
Init ==
    \/ \E sample \in Samples :
           Start(sample.shape, sample.value, << >>, "encode")
    \/ \E pads \in PadLists :
           Start(Type.Footprint, FootprintVal(Text.Capacitor, pads), << >>, "encode")
    \/ \E S \in SUBSET (1..NumFlags) :
           Start(Type.Flags, FlagsVal(S), << >>, "encode")
    \/ \E given \in Inputs :
           Start(given.shape, NoValue, given.text, "text")
    \/ \E o \in FlagOrders : Start(Type.Flags, NoValue, FlagText(o), "text")
    \/ \E S \in SUBSET (1..2) :
           Start(Type.Pins, StructVal([i \in 1..2 |-> BoolVal(i \in S)]),
                 << >>, "encode")
    \/ \E s \in Strings : Start(String, StrVal(s), << >>, "string")
    \/ \E s \in Strings :
           Start(Type.Attribute, TupleVal(<<StrVal(s)>>), << >>, "encode")
    \/ \E token \in Tokens :
           Start(Type.Item, NoValue,
                 <<"(">> \o Name.item \o <<" ">> \o token \o <<")">>, "text")
    \/ \E number \in Numbers :
           Start(Type.Net, NoValue,
                 <<"(">> \o Name.net \o <<" ">> \o number \o <<")">>, "text")

\* The caller's step after to_string or to_string_pretty returned r.
Encoded(r, pretty) ==
    /\ out' = [ok |-> r.ok, err |-> r.err, buf |-> r.buf, pretty |-> pretty]
    /\ base' = r.buf
    /\ text' = r.buf
    /\ pc' = IF r.ok THEN "text" ELSE "refused"
    /\ UNCHANGED <<shape, value, inserted, sx, vals, keys, last, res>>
    /\ UNCHANGED lazy

\* serde_sexpr::to_string(&value)
CallToString ==
    /\ pc = "encode"
    /\ Encoded(to_string(shape, value), FALSE)

\* serde_sexpr::to_string_pretty(&value)
CallToStringPretty ==
    /\ pc = "encode"
    /\ Encoded(to_string_pretty(shape, value), TRUE)

RECURSIVE InString(_, _, _)
\* Whether the offset p of s lies inside a quoted string, quoted telling
\* whether s starts inside one; a backslash takes the next character
\* with it.
InString(s, p, quoted) ==
    IF p <= 0 \/ s = << >> THEN quoted
    ELSE IF quoted /\ s[1] = "\\" /\ Len(s) >= 2
         THEN (IF p = 1 THEN TRUE ELSE InString(SliceFrom(s, 2), p - 2, TRUE))
    ELSE IF s[1] = "\"" THEN InString(Tail(s), p - 1, ~quoted)
    ELSE InString(Tail(s), p - 1, quoted)

\* Whether the offset p of s lies between two tokens: outside the quoted
\* strings, and not between two characters of one atom.
BetweenTokens(s, p) ==
    IF InString(s, p, FALSE) THEN FALSE
    ELSE IF p = 0 \/ p = Len(s) THEN TRUE
    ELSE \E i \in {p, p + 1} : s[i] \in WhiteSpace \cup {"(", ")", "\""}

\* The caller puts a whitespace character between two tokens of one of
\* the texts of Inputs.
InsertWhitespace ==
    /\ pc = "text"
    /\ inserted < MaxInserted
    /\ Len(base) <= MaxWsText
    /\ [shape |-> shape, text |-> base] \in Inputs
    /\ \E p \in 0..Len(text), ws \in {" ", "\n"} :
           /\ BetweenTokens(text, p)
           /\ text' = Slice(text, 0, p) \o <<ws>> \o SliceFrom(text, p)
    /\ inserted' = inserted + 1
    /\ UNCHANGED <<shape, value, out, base, pc, sx, vals, keys, last, res>>
    /\ UNCHANGED lazy

\* serde_sexpr::from_str::<T>(text) for a T that is no struct.
CallFromStr ==
    /\ pc = "text"
    /\ shape.k # "struct"
    /\ res' = from_str(shape, text)
    /\ pc' = "decoded"
    /\ UNCHANGED <<shape, value, out, base, text, inserted, sx, vals, keys, last>>
    /\ UNCHANGED lazy

\* serde_sexpr::from_str::<T>(text) for a struct T, up to the call of
\* visit_map: Deserializer::deserialize_struct, SExpr::new.
DeserializeStruct ==
    /\ pc = "text"
    /\ shape.k = "struct"
    /\ LET begin == consume_beginning(text, shape.name)
       IN  IF begin.ok
           THEN /\ sx' = [input |-> begin.input, index |-> 0,
                          skip_to |-> NoSkip]
                /\ vals' = [i \in 1..Len(shape.fields) |-> Unset]
                /\ pc' = "key"
                /\ res' = res
           ELSE /\ res' = Err(begin.err, begin.input, FALSE)
                /\ pc' = "decoded"
                /\ UNCHANGED <<sx, vals>>
    /\ UNCHANGED <<shape, value, out, base, text, inserted, keys, last>>
    /\ UNCHANGED lazy

\* The visitor of the top-level struct calls next_key_seed.
NextKeySeed ==
    /\ pc = "key"
    /\ LET key == next_key_seed(sx, shape.fields)
       IN  /\ sx' = key.st
           /\ IF ~key.ok
              THEN /\ res' = Err(key.err, key.st.input, TRUE)
                   /\ pc' = "decoded"
                   /\ keys' = keys
              ELSE /\ res' = res
                   /\ pc' = IF key.some THEN "value" ELSE "end"
                   /\ keys' = IF key.some THEN Append(keys, key.st.index)
                              ELSE keys
    /\ UNCHANGED <<shape, value, out, base, text, inserted, vals, last>>
    /\ UNCHANGED lazy

\* The visitor of the top-level struct calls next_value_seed.
NextValueSeed ==
    /\ pc = "value"
    /\ LET seed == shape.shapes[sx.index + 1]
           observed(impl, attempt) ==
               last' = [index |-> sx.index, input |-> sx.input,
                        skip_to |-> sx.skip_to, after |-> impl.res.input,
                        skip_after |-> impl.skip_to,
                        wrapped |-> seed.k = "option_with",
                        attempt |-> attempt,
                        result |-> impl.res]
           returned(v) ==
               /\ sx' = v.st
               /\ IF v.ok
                  THEN /\ vals' = [vals EXCEPT ![sx.index + 1] = v.val]
                       /\ pc' = "key"
                       /\ res' = res
                  ELSE /\ res' = Err(v.err, v.st.input, TRUE)
                       /\ pc' = "decoded"
                       /\ vals' = vals
       IN  /\ observed(next_value_seed_impl(sx, shape),
                       IF seed.k = "option_with"
                       THEN seed_deserialize(sx, shape, seed.of).res
                       ELSE NoResult)
           /\ returned(next_value_seed(sx, shape))
    /\ UNCHANGED <<shape, value, out, base, text, inserted, keys>>
    /\ UNCHANGED lazy

\* next_key_seed yielded None: the visitor of the top-level struct builds
\* the value, and Deserializer::deserialize_struct checks what is left.
VisitMapEnd ==
    /\ pc = "end"
    /\ LET built == visit_map_end(shape, vals, sx.input)
       IN  res' = IF built.ok THEN check_no_trailing_tokens(built) ELSE built
    /\ pc' = "decoded"
    /\ UNCHANGED <<shape, value, out, base, text, inserted, sx, vals, keys, last>>
    /\ UNCHANGED lazy

\* Serializer::write_str(value, aggressive_quotes) as the one value of an
\* expression: begin_sexpr, write_str, end_sexpr.
WriteStr ==
    /\ pc = "string"
    /\ \E aggressive_quotes \in BOOLEAN :
           LET begun == begin_sexpr(Serializer_new(FALSE), Name.descr)
               ser   == end_sexpr(write_str(begun, value.v, aggressive_quotes))
           IN  /\ out' = [ok |-> TRUE, err |-> "", buf |-> ser.buf,
                          pretty |-> FALSE]
               /\ base' = ser.buf
               /\ text' = ser.buf
    /\ pc' = "written"
    /\ UNCHANGED <<shape, value, inserted, sx, vals, keys, last, res>>
    /\ UNCHANGED lazy

\* Deserializer::parse_string on the value of that expression:
\* consume_beginning, the skip_whitespace of check_eoe, parse_string.
ParseString ==
    /\ pc = "written"
    /\ LET begin == consume_beginning(text, Name.descr)
       IN  res' = parse_string(skip_whitespace(begin.input))
    /\ pc' = "parsed"
    /\ UNCHANGED <<shape, value, out, base, text, inserted, sx, vals, keys, last>>
    /\ UNCHANGED lazy

Next ==
    \/ CallToString
    \/ CallToStringPretty
    \/ InsertWhitespace
    \/ CallFromStr
    \/ DeserializeStruct
    \/ NextKeySeed
    \/ NextValueSeed
    \/ VisitMapEnd
    \/ WriteStr
    \/ ParseString

Spec == Init /\ [][Next]_vars

\* The threads of a process decode a text as the untagged! enum.
InitLazy ==
    \E enum \in {Type.FooOrBar, Type.FooOrCount, Type.FooOrLiteral},
       input \in {(<<"(">> \o Name.locked \o <<")">>), <<"(">> \o Name.foo \o <<")">>,
                  <<"(">> \o Name.bar \o <<")">>} :
        Start(enum, NoValue, input, "threads")

\* <$name as Deserialize>::deserialize with the names probed at every
\* call instead of read from the static.
Lazy_force_uncached(t) ==
    /\ pc = "threads"
    /\ threads[t].pc = "idle"
    /\ threads[t].calls < MaxCalls
    /\ threads' = [threads EXCEPT ![t].pc = "init"]
    /\ UNCHANGED <<caller, VARIANTS, probes>>

\* Thread t calls <$name as Deserialize>::deserialize, which reads the
\* static VARIANTS.  VARIANTS is a once_cell::sync::Lazy, whose contract
\* is: the first thread to read it runs the initialiser; a thread that
\* reads it meanwhile blocks until the value is stored; a thread that reads
\* it later gets the stored value.
Lazy_force(t) ==
    /\ pc = "threads"
    /\ threads[t].pc = "idle"
    /\ threads[t].calls < MaxCalls
    /\ IF VARIANTS.state = "Complete"
       THEN /\ threads' = [threads EXCEPT ![t].pc = "visit",
                                          ![t].variants = VARIANTS.value]
            /\ VARIANTS' = VARIANTS
       ELSE IF VARIANTS.state = "Incomplete"
            THEN /\ VARIANTS' = [VARIANTS EXCEPT !.state = "Running"]
                 /\ threads' = [threads EXCEPT ![t].pc = "init"]
       ELSE /\ threads' = [threads EXCEPT ![t].pc = "wait",
                                          ![t].waited = TRUE]
            /\ VARIANTS' = VARIANTS
    /\ UNCHANGED <<caller, probes>>

\* Thread t runs the initialiser of VARIANTS, which probes the
\* candidates, and stores what it returns.
Lazy_init(t) ==
    /\ pc = "threads"
    /\ threads[t].pc = "init"
    /\ probes' = probes + 1
    /\ VARIANTS' = [state |-> "Complete", value |-> VARIANTS_init(shape.inner)]
    /\ threads' = [threads EXCEPT ![t].pc = "visit",
                                  ![t].variants = VARIANTS_init(shape.inner)]
    /\ UNCHANGED caller

\* Thread t, which found another thread at the initialisation, is woken
\* when the value is there.
Lazy_wait(t) ==
    /\ pc = "threads"
    /\ threads[t].pc = "wait"
    /\ VARIANTS.state = "Complete"
    /\ threads' = [threads EXCEPT ![t].pc = "visit",
                                  ![t].variants = VARIANTS.value]
    /\ UNCHANGED <<caller, VARIANTS, probes>>

\* Thread t goes on with what it read VARIANTS as: deserialize_enum.
deserialize_enum(t) ==
    /\ pc = "threads"
    /\ threads[t].pc = "visit"
    /\ threads' = [threads EXCEPT
                      ![t].pc = "idle",
                      ![t].calls = @ + 1,
                      ![t].result = untagged_deserialize(threads[t].variants,
                                                         shape, text)]
    /\ UNCHANGED <<caller, VARIANTS, probes>>

NextLazy ==
    \/ \E t \in Threads : Lazy_force(t)
    \/ \E t \in Threads : Lazy_init(t)
    \/ \E t \in Threads : Lazy_wait(t)
    \/ \E t \in Threads : deserialize_enum(t)

SpecLazy == InitLazy /\ [][NextLazy]_vars

\* ------------------------------------------------------------- claims

\* C1: a value of a supported shape (unit, tuple and record structs of
\* numbers, strings, unit-enum tags, flags, optional fields and
\* sequences) that to_string or to_string_pretty encoded is decoded by
\* from_str to the same value.
RoundTrip ==
    (pc = "decoded" /\ out.ok /\ inserted = 0 /\ shape.k # "untagged") =>
        (res.ok /\ res.val = value)

\* The top-level expression of the text, decoded without the check for
\* trailing tokens.
TopLevelExpression == Field_deserialize(shape, NoIdent, text)

\* C2: a top-level decode of a unit struct, a tuple struct, a record or
\* an enum that succeeds has consumed the whole input but for trailing
\* whitespace, and when a character that is no whitespace is left after
\* the top-level expression was decoded, the decode fails with
\* TrailingTokens.
TrailingTokensRejected ==
    (pc = "decoded"
         /\ shape.k \in {"unit_struct", "tuple_struct", "struct", "enum",
                         "untagged"}) =>
        /\ res.ok =>
               /\ res.input = << >>
               /\ TopLevelExpression.ok
               /\ skip_whitespace(TopLevelExpression.input) = << >>
        /\ (TopLevelExpression.ok
                /\ skip_whitespace(TopLevelExpression.input) # << >>) =>
               (~res.ok /\ res.err = "TrailingTokens")

\* `(locked) extra` against Locked was refused for its trailing tokens.
TrailingTokensSeen ==
    /\ pc = "decoded"
    /\ shape = Type.Locked
    /\ text = (<<"(">> \o Name.locked \o <<")">>) \o <<" ", "e", "x", "t", "r", "a">>
    /\ ~res.ok
    /\ res.err = "TrailingTokens"

\* C3: deserialize_option returns Some(v) when the wrapped decode returns
\* v; it returns None exactly when the wrapped decode fails with the flag
\* still false; and it returns the wrapped decode's error when that fails
\* with the flag set.
OptionResolved ==
    last.wrapped =>
        /\ last.attempt.ok =>
               (last.result.ok /\ last.result.val = Some(last.attempt.val))
        /\ (last.result.ok /\ last.result.val = None)
               <=> (~last.attempt.ok /\ ~last.attempt.flag)
        /\ (~last.attempt.ok /\ last.attempt.flag) =>
               (~last.result.ok /\ last.result.err = last.attempt.err)

\* An optional field's decode failed after its visitor was called, and
\* the field's decode failed with the same error.
OptionErrorPropagated ==
    /\ last.wrapped
    /\ ~last.attempt.ok
    /\ last.attempt.flag
    /\ ~last.result.ok
    /\ last.result.err = last.attempt.err

\* The names of the fields of the top-level struct from the one the last
\* next_value_seed was for.
NamesFromLast ==
    {shape.fields[i] : i \in (last.index + 1)..Len(shape.fields)}

\* (drill oval 0.635 0.847)
DrillOvalText ==
    <<"(", "d", "r", "i", "l", "l", " ", "o", "v", "a", "l", " ", "0", ".",
      "6", "3", "5", " ", "0", ".", "8", "4", "7", ")">>

\* (drill 0.635)
DrillRoundText ==
    <<"(", "d", "r", "i", "l", "l", " ", "0", ".", "6", "3", "5", ")">>

\* C4: a boolean field of a record that is resolved from the input (no
\* skip-ahead under way) decodes to true, the identifier consumed, when
\* the bare identifier next in the input equals its name, and to false,
\* nothing consumed, when what is next is no identifier naming this or a
\* later field; `(drill oval 0.635 0.847)` gives oval = true, drill1 =
\* 0.635, drill2 = Some(0.847) and `(drill 0.635)` gives oval = false,
\* drill1 = 0.635, drill2 = None.
BooleanPresence ==
    /\ (last.index >= 0 /\ last.skip_to = NoSkip
            /\ shape.shapes[last.index + 1].k = "bool") =>
           LET name       == shape.fields[last.index + 1]
               identifier == peek_identifier(last.input)
           IN  /\ (identifier # << >> /\ identifier = name) =>
                      /\ last.result.ok
                      /\ last.result.val = BoolVal(TRUE)
                      /\ last.after = SliceFrom(last.input, Len(name))
               /\ identifier \notin NamesFromLast =>
                      /\ last.result.ok
                      /\ last.result.val = BoolVal(FALSE)
                      /\ last.after = last.input
    /\ (pc = "decoded" /\ shape = Type.Drill /\ text = DrillOvalText) =>
           /\ res.ok
           /\ res.val = DrillVal(TRUE, FloatVal(635, 3), Some(FloatVal(847, 3)))
    /\ (pc = "decoded" /\ shape = Type.Drill /\ text = DrillRoundText) =>
           (res.ok /\ res.val = DrillVal(FALSE, FloatVal(635, 3), None))

\* The oval of `(drill oval 0.635 0.847)` was read as the flag of Drill.
OvalFlagRead ==
    /\ shape = Type.Drill
    /\ text = DrillOvalText
    /\ last.index = 0
    /\ last.result.val = BoolVal(TRUE)
    /\ last.after = SliceFrom(last.input, Len(Name.oval))

\* The flags an order lists come in declaration order.
Increasing(o) == \A i, j \in 1..Len(o) : i < j => o[i] < o[j]

\* The decode of the input listing the flags of o gave exactly these.
ListedFlagsTrue(o) ==
    /\ res.ok
    /\ \A i \in 1..NumFlags :
           res.val.v[i] = BoolVal(\E j \in 1..Len(o) : o[j] = i)

\* C5 as the specification has it: an input that lists any subset of the
\* flag names of a record of flags, in any order, decodes with exactly
\* the listed flags true.
FlagsInAnyOrder ==
    \A o \in FlagOrders :
        (pc = "decoded" /\ shape = Type.Flags /\ text = FlagText(o)) =>
            ListedFlagsTrue(o)

\* C5: an input that lists any subset of the flag names of a record of
\* flags in declaration order decodes with exactly the listed flags true
\* and the others false.
FlagsInDeclarationOrder ==
    \A o \in FlagOrders :
        (pc = "decoded" /\ shape = Type.Flags /\ text = FlagText(o)
             /\ Increasing(o)) =>
            ListedFlagsTrue(o)

\* `(flags a c)` was decoded: b, left out between two listed flags, is
\* false.
FlagSkippedOver ==
    /\ pc = "decoded"
    /\ shape = Type.Flags
    /\ text = FlagText(<<1, 3>>)
    /\ res.ok
    /\ res.val = FlagsVal({1, 3})

\* C6: a record whose last field has the empty name and is a sequence
\* decodes the k nested records that follow the fields before it to the
\* sequence of these k records, in order; the sequence leaves the ')' to
\* the record; and for k = 0 no key comes for the field, whose default,
\* the empty sequence, is used.
TrailingFieldCaptured ==
    (pc = "decoded" /\ shape = Type.Footprint /\ out.ok
         /\ value.v[1] = StrVal(Text.Capacitor)) =>
        /\ res.ok
        /\ res.val.v[2] = value.v[2]
        /\ res.input = << >>
        /\ IF value.v[2].v = << >>
           THEN keys = <<0>>
           ELSE /\ keys = <<0, 1>>
                /\ last.index = 1
                /\ last.after = <<")">>

\* A footprint of two pads was decoded from its pretty text.
TwoPadsCaptured ==
    /\ pc = "decoded"
    /\ shape = Type.Footprint
    /\ out.ok
    /\ out.pretty
    /\ res.ok
    /\ res.val.v[2] = SeqVal(<<PadWithoutDrill, SecondPad>>)

\* C7: a string of letters, spaces, quotes and backslashes that write_str
\* wrote is read by parse_string as the same string, and parse_string
\* consumes exactly what write_str wrote for it.
StringRoundTrip ==
    pc = "parsed" => (res.ok /\ res.val = value /\ res.input = <<")">>)

\* A string with a backslash directly before a quote and a backslash at
\* its end was written and read back.
BackslashesRead ==
    /\ pc = "parsed"
    /\ value = StrVal(<<"a", "\\", "\"", "\\">>)
    /\ res.ok
    /\ res.val = value

\* C8: the decode of an untagged enum looks at the head identifier of the
\* input without consuming it and decodes, from the whole input, the
\* first candidate in declaration order whose probed name equals it; when
\* no candidate's name equals it, the decode fails with an error that
\* lists the candidates' names.
UntaggedDispatch ==
    (pc = "decoded" /\ shape.k = "untagged"
         /\ VARIANTS_init(shape.inner).ok
         /\ peek_sexpr_identifier(text).ok) =>
        LET head    == peek_sexpr_identifier(text).val
            names   == [i \in 1..Len(shape.inner) |-> shape.inner[i].name]
            matches == {i \in 1..Len(names) : names[i] = head}
            first   == Min(matches)
            taken(candidate) ==
                IF candidate.ok
                THEN res.ok /\ res.val = UntaggedVal(first, candidate.val)
                ELSE ~res.ok /\ res.err = candidate.err
        IN  IF matches = {}
            THEN /\ ~res.ok
                 /\ res.err = "Message"
                 /\ res.val = [t |-> "error", expected |-> names]
            ELSE taken(from_str(shape.inner[first], text))

\* `(foo)` against FooOrCount, both of whose candidates ask for foo, gave
\* the first.
FirstCandidateTaken ==
    /\ pc = "decoded"
    /\ shape = Type.FooOrCount
    /\ res.ok
    /\ res.val = UntaggedVal(1, UnitVal)

\* C10: a text that decodes, with whitespace added between two of its
\* tokens (before the first '(', after a '(', before a ')' included),
\* decodes to the same value.
WhitespaceInsensitive ==
    (pc = "decoded" /\ inserted > 0 /\ from_str(shape, base).ok) =>
        (res.ok /\ res.val = from_str(shape, base).val)

\* C9: the initialiser of VARIANTS, which probes the candidates of the
\* untagged enum, runs at most once however the threads' first decodes
\* interleave, and every decode, on any thread at any time, goes on with
\* the same names (or the same probe error), those the initialiser gives.
ProbedOnce ==
    /\ probes <= 1
    /\ \A t \in Threads :
           threads[t].pc = "visit" =>
               /\ probes = 1
               /\ threads[t].variants = VARIANTS.value
               /\ threads[t].variants = VARIANTS_init(shape.inner)
    /\ \A t, u \in Threads :
           (threads[t].calls > 0 /\ threads[u].calls > 0) =>
               threads[t].result = threads[u].result

\* Two threads made their first decode at the same time: one of them
\* waited for the other's initialisation, and both have decoded.
ProbedUnderRace ==
    /\ probes = 1
    /\ \E t, u \in Threads :
           /\ t # u
           /\ threads[t].waited
           /\ threads[t].calls > 0
           /\ threads[u].calls > 0
           /\ threads[t].result = threads[u].result

\* A text between double quotes, escaped as write_str escapes it.
Quoted(v) == <<"\"">> \o Escape(v) \o <<"\"">>

\* The two quoting rules the documentation names: the plain one (empty, or
\* a whitespace, parenthesis or quote character) and the aggressive one
\* (empty, or any character that is no ASCII letter or underscore).
PlainRule(v) == v = << >> \/ \E i \in 1..Len(v) : v[i] \in CHARS

AggressiveRule(v) ==
    v = << >> \/ \E i \in 1..Len(v) : ~is_ascii_alphabetic(v[i]) /\ v[i] # "_"

\* The encoded text of an Attribute whose string is written quoted or
\* bare, and the head of the encoded text of a Pad whose two variant tags
\* are.
AttributeText(quoted) ==
    <<"(">> \o Name.attr \o <<" ">>
        \o (IF quoted THEN Quoted(value.v[1].v) ELSE value.v[1].v) \o <<")">>

PadHead(quoted_ty, quoted_shape) ==
    LET ty  == Type.PadType.variants[value.v[2].i]
        shp == Type.PadShape.variants[value.v[3].i]
    IN  <<"(">> \o Name.pad \o <<" ">> \o IntToText(value.v[1].v.v)
            \o <<" ">> \o (IF quoted_ty THEN Quoted(ty) ELSE ty)
            \o <<" ">> \o (IF quoted_shape THEN Quoted(shp) ELSE shp)

\* C11 as stated: a string value is quoted by the plain rule, a variant tag
\* by the aggressive rule.
QuotingAsStated ==
    /\ (out.ok /\ shape = Type.Attribute) =>
           out.buf = AttributeText(PlainRule(value.v[1].v))
    /\ (out.ok /\ shape = Type.Pad) =>
           LET head == PadHead(
                           AggressiveRule(Type.PadType.variants[value.v[2].i]),
                           AggressiveRule(Type.PadShape.variants[value.v[3].i]))
           IN  Slice(out.buf, 0, Len(head)) = head

\* C11: a string value is written quoted exactly when it is empty or holds
\* a character that is no ASCII letter or underscore; a variant tag is
\* written quoted exactly when it is empty or holds a whitespace,
\* parenthesis or quote character.
QuotingByKind ==
    /\ (out.ok /\ shape = Type.Attribute) =>
           out.buf = AttributeText(AggressiveRule(value.v[1].v))
    /\ (out.ok /\ shape = Type.Pad) =>
           LET head == PadHead(
                           PlainRule(Type.PadType.variants[value.v[2].i]),
                           PlainRule(Type.PadShape.variants[value.v[3].i]))
           IN  Slice(out.buf, 0, Len(head)) = head

\* The pad of test_case pad_with_drill was encoded: the tag thru-hole is
\* bare and the string F.Cu is quoted.
TagBareStringQuoted ==
    /\ out.ok /\ ~out.pretty
    /\ shape = Type.Pad /\ value = PadWithDrill
    /\ out.buf = <<"(", "p", "a", "d", " ", "1", " ", "t", "h", "r", "u",
                   "-", "h", "o", "l", "e", " ", "r", "e", "c", "t", " ",
                   "(", "a", "t", " ", "0", " ", "0", ")", " ",
                   "(", "s", "i", "z", "e", " ", "1", ".", "2", "7", " ",
                   "1", ".", "2", "7", ")", " ",
                   "(", "d", "r", "i", "l", "l", " ", "0", ".", "6", "3",
                   "5", ")", " ",
                   "(", "l", "a", "y", "e", "r", "s", " ", "\"", "F", ".",
                   "C", "u", "\"", ")", ")">>

\* C12: the encoded text of a record whose fields are all boolean is its
\* name and, for each field that is true, one space and the bare name of
\* the field; a field that is false adds nothing.
BooleanEncoding ==
    (out.ok /\ shape.k = "struct"
         /\ \A i \in 1..Len(shape.shapes) : shape.shapes[i].k = "bool") =>
        out.buf = <<"(">> \o shape.name
                      \o Cat([i \in 1..Len(shape.fields) |->
                                 IF value.v[i].v
                                 THEN <<" ">> \o shape.fields[i]
                                 ELSE << >>])
                      \o <<")">>

RECURSIVE QuotedEnd(_, _)
\* The offset of the double quote that closes the quoted string whose
\* content starts at offset j of s (0 when there is none); a backslash
\* takes the next character with it.
QuotedEnd(s, j) ==
    IF j > Len(s) THEN 0
    ELSE IF s[j] = "\\" THEN QuotedEnd(s, j + 2)
    ELSE IF s[j] = "\"" THEN j
    ELSE QuotedEnd(s, j + 1)

\* The offset after the atom (a list's name, a number, a bare string) that
\* starts at offset j of s.
AtomEnd(s, j) == j + PrefixNotIn(SliceFrom(s, j - 1), AtomStops \cup {"("})

\* One step of reading s at offset i with d lists open: whether what
\* stands there is allowed, and the offset and the number of open lists
\* after it.  `)` stands directly after what precedes it, the top-level
\* list comes first, one space stands before every atom and quoted string,
\* and before a nested list one space (compact) or a newline and 2 * d
\* spaces (pretty).
LaidOutStep(s, i, d, pretty) ==
    LET to(ok, j, e) == [ok |-> ok, i |-> j, d |-> e]
        no == to(FALSE, i, d)
    IN  IF s[i] = ")" THEN to(d > 0, i + 1, d - 1)
        ELSE IF d = 0
             THEN IF i = 1 /\ s[1] = "(" THEN to(TRUE, AtomEnd(s, 2), 1) ELSE no
        ELSE IF s[i] = " " /\ i < Len(s)
             THEN IF s[i + 1] = "(" THEN to(~pretty, AtomEnd(s, i + 2), d + 1)
                  ELSE IF s[i + 1] = "\""
                       THEN to(QuotedEnd(s, i + 2) # 0,
                               QuotedEnd(s, i + 2) + 1, d)
                  ELSE to(s[i + 1] \notin AtomStops, AtomEnd(s, i + 1), d)
        ELSE IF s[i] = "\n"
             THEN IF /\ pretty
                     /\ i + 2 * d + 1 <= Len(s)
                     /\ \A k \in 1..(2 * d) : s[i + k] = " "
                     /\ s[i + 2 * d + 1] = "("
                  THEN to(TRUE, AtomEnd(s, i + 2 * d + 2), d + 1)
                  ELSE no
        ELSE no

RECURSIVE LaidOut(_, _, _, _)
\* Whether s from offset i on, read with d lists open, is laid out as the
\* documentation says.
LaidOut(s, i, d, pretty) ==
    IF i > Len(s) THEN d = 0
    ELSE LET step == LaidOutStep(s, i, d, pretty)
         IN  step.ok /\ LaidOut(s, step.i, step.d, pretty)

\* C13: every text the encoder returns is laid out so, in compact and in
\* pretty mode.
PrettyLayout ==
    (out.ok /\ pc = "text" /\ inserted = 0) =>
        LaidOut(out.buf, 1, 0, out.pretty)

\* The footprint of test_case footprint_with_one_pad was encoded in pretty
\* mode: its pad starts a line indented by two spaces, the lists of the pad
\* lines indented by four.
FootprintLaidOut ==
    /\ out.ok /\ out.pretty
    /\ shape = Type.Footprint
    /\ value = FootprintVal(Text.Capacitor, <<PadWithoutDrill>>)
    /\ out.buf = <<"(", "f", "o", "o", "t", "p", "r", "i", "n", "t", " ",
                 "\"", "C", "a", "p", "a", "c", "i", "t", "o", "r",
                 "_", "S", "M", "D", ":", "C", "_", "0", "4", "0", "2",
                 "\"", "\n", " ", " ", "(", "p", "a", "d", " ", "1",
                 " ", "s", "m", "d", " ", "r", "e", "c", "t", "\n",
                 " ", " ", " ", " ", "(", "a", "t", " ", "0", " ", "0",
                 ")", "\n", " ", " ", " ", " ", "(", "s", "i", "z",
                 "e", " ", "1", ".", "2", "7", " ", "1", ".", "2", "7",
                 ")", "\n", " ", " ", " ", " ", "(", "l", "a", "y",
                 "e", "r", "s", " ", "\"", "F", ".", "C", "u", "\"",
                 ")", ")", ")">>

\* C14: a boolean asked for as an element of a tuple struct is refused,
\* by the decoder and by the encoder (which gives UnnamedBoolean).
UnnamedBooleanRejected ==
    (shape.k = "tuple_struct"
         /\ \E i \in 1..Len(shape.elems) : shape.elems[i].k = "bool") =>
        /\ pc = "decoded" => ~res.ok
        /\ (value # NoValue /\ pc # "encode") =>
               (~out.ok /\ out.err = "UnnamedBoolean")

\* The shapes the derived implementations announce as a struct: a record,
\* a tuple or newtype struct, a unit struct.
StructKinds == {"struct", "tuple_struct", "unit_struct"}

\* A state after the caller's to_string or to_string_pretty returned.
AfterEncode == value # NoValue /\ pc \in {"text", "refused", "key", "value",
                                          "end", "decoded"}

RecordClosed == shape.k = "struct" /\ sx.skip_to = Len(shape.fields) + 1

\* What the last next_value_seed gave was false for a boolean field and
\* None for an optional one.
LastAbsent ==
    /\ shape.shapes[last.index + 1].k = "bool" =>
           (last.result.ok /\ last.result.val = BoolVal(FALSE))
    /\ shape.shapes[last.index + 1].k = "option_with" =>
           (last.result.ok /\ last.result.val = None)

\* (at 1.23 -4.56)
AtText ==
    <<"(", "a", "t", " ", "1", ".", "2", "3", " ", "-", "4", ".", "5", "6",
      ")">>

\* `(at 1.23 -4.56)` decodes to x = 1.23, y = -4.56, rot = None.
AtWithoutRot ==
    (pc = "decoded" /\ shape = Type.Position /\ text = AtText) =>
        (res.ok /\ res.val = PositionVal(FloatVal(123, 2), FloatVal(-456, 2),
                                         None))

\* C16 as stated: once the `)` of the record was consumed, its
\* next_key_seed and next_value_seed leave the input as it is, and give
\* false for a boolean field and None for an optional one.
ClosedRecordReadsNothing ==
    [][/\ (RecordClosed /\ pc \in {"key", "value"}) => sx'.input = sx.input
       /\ (RecordClosed /\ pc = "value") => LastAbsent'
       /\ AtWithoutRot']_vars

\* C16: once the `)` of the record was consumed, its next_key_seed and
\* next_value_seed consume nothing but the whitespace that follows (all of
\* it when the step succeeds), and give false for a boolean field and None
\* for an optional one.
ClosedRecordReadsWhitespaceOnly ==
    [][/\ (RecordClosed /\ pc \in {"key", "value"}) =>
              sx'.input \in {sx.input, skip_whitespace(sx.input)}
       /\ (RecordClosed /\ pc \in {"key", "value"} /\ pc' # "decoded") =>
              sx'.input = skip_whitespace(sx.input)
       /\ (RecordClosed /\ pc = "value") => LastAbsent'
       /\ AtWithoutRot']_vars

\* The rot of `(at 1.23 -4.56)` was given as None after the `)` was
\* consumed.
RotAbsentAfterClose ==
    /\ shape = Type.Position /\ text = AtText
    /\ last.index = 2 /\ last.skip_to = 4
    /\ last.result.ok /\ last.result.val = None
    /\ last.after = last.input

\* The last next_value_seed was for a field declared as a native Option.
NativeOptionAsked ==
    /\ shape.k = "struct" /\ last.index >= 0
    /\ shape.shapes[last.index + 1].k = "option"

\* Which deserializer next_value_seed_impl handed the seed of the last
\* field.
LastDeserializer ==
    LET identifier == peek_identifier(last.input)
        later      == {shape.fields[i] : i \in (last.index + 2)..Len(shape.fields)}
    IN  IF last.skip_to = last.index THEN "TrueField"
        ELSE IF last.skip_to # NoSkip THEN "MissingField"
        ELSE IF identifier # << >> /\ identifier = shape.fields[last.index + 1]
             THEN "TrueField"
        ELSE IF identifier # << >> /\ identifier \in later THEN "MissingField"
        ELSE "Field"

\* (pair 1 smd)
PairText == <<"(", "p", "a", "i", "r", " ", "1", " ", "s", "m", "d", ")">>

LaterNamed ==
    {i \in (last.index + 1)..(Len(shape.fields) - 1) :
        shape.fields[i + 1] = peek_identifier(last.input)}

\* The last next_value_seed found the name of a later field at the cursor
\* while no skip was under way.
DetectedLater ==
    /\ shape.k = "struct" /\ last.index >= 0 /\ last.skip_to = NoSkip
    /\ peek_identifier(last.input) # << >>
    /\ peek_identifier(last.input) # shape.fields[last.index + 1]
    /\ LaterNamed # {}

\* The last next_value_seed was for the field a skip was under way to.
ReachedSkipTo ==
    shape.k = "struct" /\ last.index >= 0 /\ last.skip_to = last.index

\* C18 as stated: detecting the name of a later field F[i] sets skip_to
\* to i and gives false or None for the current field with the identifier
\* left in the input, and the identifier is consumed when index reaches i.
DetectionLeavesIdentifier ==
    /\ DetectedLater =>
           /\ last.skip_after = Min(LaterNamed)
           /\ LastAbsent
           /\ last.after = last.input
    /\ ReachedSkipTo =>
           last.after = SliceFrom(last.input,
                                  Len(shape.fields[last.index + 1]))

\* C18: detecting the name of a later field F[i] sets skip_to to i, gives
\* false or None for the current field and consumes the identifier at
\* once; when index reaches i nothing is consumed.
DetectionConsumesIdentifier ==
    /\ DetectedLater =>
           /\ last.skip_after = Min(LaterNamed)
           /\ LastAbsent
           /\ last.after = SliceFrom(last.input,
                                     Len(peek_identifier(last.input)))
    /\ ReachedSkipTo =>
           (last.after = last.input /\ last.skip_after = NoSkip)

\* On `(flags b)` the field a found the name of b: it was given as false,
\* skip_to became 1 and `b` was consumed.
LaterFlagDetected ==
    /\ DetectedLater /\ shape = Type.Flags
    /\ last.index = 0 /\ last.input = <<"b", ")">>
    /\ last.skip_after = 1 /\ last.after = <<")">>
    /\ last.result.ok /\ last.result.val = BoolVal(FALSE)

\* The positions, counted from 0, of the fields after the current one
\* whose name is the identifier at the cursor.
LaterNamedAtCursor ==
    {i \in (sx.index + 1)..(Len(shape.fields) - 1) :
        shape.fields[i + 1] = peek_identifier(sx.input)}

\* next_value_seed is about to find the name of a later field at the
\* cursor.
AboutToDetect ==
    /\ shape.k = "struct" /\ pc = "value" /\ sx.skip_to = NoSkip
    /\ peek_identifier(sx.input) # << >>
    /\ peek_identifier(sx.input) # shape.fields[sx.index + 1]
    /\ LaterNamedAtCursor # {}

\* skip_to names a declared field: a skip ahead is under way.
SkipUnderWay ==
    shape.k = "struct" /\ sx.skip_to # NoSkip /\ sx.skip_to < Len(shape.fields)

\* What the last next_value_seed gave a boolean field was true.
LastTrue ==
    shape.shapes[last.index + 1].k = "bool" =>
        (last.result.ok /\ last.result.val = BoolVal(TRUE))

\* C19 as stated: from the detection of the name of a later field F[i]
\* on, every field before F[i] is given as false or None and skip_to
\* stays i without any read of the input; then F[i] is given as true and
\* skip_to is cleared, and the end-of-expression check is made again.
SkipAheadReadsNothing ==
    [][/\ AboutToDetect =>
              /\ LastAbsent'
              /\ pc' = "key" =>
                     (sx'.skip_to = Min(LaterNamedAtCursor)
                          /\ sx'.input = sx.input)
       /\ (SkipUnderWay /\ pc = "value" /\ sx.index < sx.skip_to) =>
              /\ LastAbsent'
              /\ pc' = "key" =>
                     (sx'.skip_to = sx.skip_to /\ sx'.input = sx.input)
       /\ (SkipUnderWay /\ pc = "key") =>
              (sx'.skip_to = sx.skip_to /\ sx'.input = sx.input)
       /\ (SkipUnderWay /\ pc = "value" /\ sx.index = sx.skip_to) =>
              /\ LastTrue'
              /\ last'.skip_after = NoSkip /\ last'.after = sx.input
              /\ sx'.skip_to \in {NoSkip, Len(shape.fields) + 1}]_vars

\* C19: the detection of the name of a later field F[i] consumes the
\* identifier; from then on every field before F[i] is given as false or
\* None and skip_to stays i while nothing but whitespace is consumed and
\* no `)` is looked for; then F[i] is given as true and skip_to is
\* cleared, and the end-of-expression check is made again.
SkipAheadOrdering ==
    [][/\ AboutToDetect =>
              /\ LastAbsent'
              /\ pc' = "key" =>
                     /\ sx'.skip_to = Min(LaterNamedAtCursor)
                     /\ sx'.input =
                            skip_whitespace(
                                SliceFrom(sx.input,
                                          Len(peek_identifier(sx.input))))
       /\ (SkipUnderWay /\ pc = "value" /\ sx.index < sx.skip_to) =>
              /\ LastAbsent'
              /\ last'.after = sx.input
              /\ pc' = "key" =>
                     /\ sx'.skip_to = sx.skip_to
                     /\ sx'.input = skip_whitespace(sx.input)
       /\ (SkipUnderWay /\ pc = "key") =>
              /\ sx'.skip_to = sx.skip_to
              /\ sx'.input = skip_whitespace(sx.input)
       /\ (SkipUnderWay /\ pc = "value" /\ sx.index = sx.skip_to) =>
              /\ LastTrue'
              /\ last'.skip_after = NoSkip /\ last'.after = sx.input
              /\ sx'.skip_to \in {NoSkip, Len(shape.fields) + 1}]_vars

\* On `(flags c)` the field b was given as false while the skip to c was
\* under way.
FlagSkipped ==
    /\ shape = Type.Flags /\ text = <<"(", "f", "l", "a", "g", "s", " ", "c", ")">>
    /\ pc = "key" /\ SkipUnderWay /\ sx.index = 2 /\ sx.skip_to = 2
    /\ last.index = 1 /\ last.skip_to = 2
    /\ last.result.ok /\ last.result.val = BoolVal(FALSE)

\* The characters peek_token goes on over.
NumberChars == {DigitChars[i] : i \in 1..Len(DigitChars)} \cup {".", "-"}

\* The token the input starts with, told from the first character that
\* is no digit, `.` or `-`.
Classify(input) ==
    LET stops == {i \in 1..Len(input) : input[i] \notin NumberChars}
        stop  == IF stops = {} THEN Len(input) + 1 ELSE Min(stops)
    IN  IF input = << >> THEN "Eof"
        ELSE IF stop <= Len(input) /\ input[stop] = "(" THEN "SExpr"
        ELSE IF stop <= Len(input) /\ input[stop] \notin AsciiWhitespace
             THEN "String"
        ELSE IF \E i \in 1..(stop - 1) : input[i] = "." THEN "Float"
        ELSE "Int"

\* The last next_value_seed handed the index of an Item to
\* Field::deserialize_any.
ItemRead ==
    /\ shape = Type.Item /\ last.index = 0
    /\ LastDeserializer = "Field"

\* peek_token tells every token of Tokens as the text tells it.
EveryTokenClassified ==
    \A token \in Tokens : peek_token(token) = Classify(token)

\* C20: peek_token gives Eof on the empty input, SExpr at the first `(`,
\* String at the first character that is no digit, `.`, `-` or ASCII
\* whitespace, and at the first ASCII whitespace or the end Float if a `.`
\* was met and Int if none was; deserialize_any reads an Int that starts
\* with `-` as signed and any other as unsigned, a Float as a float and a
\* String as a string, and a refused token is left in the input.
TokenClassification ==
    /\ EveryTokenClassified
    /\ ItemRead =>
           /\ peek_token(last.input) = Classify(last.input)
           /\ ~last.result.ok => last.after = last.input
           /\ (Classify(last.input) = "Int" /\ last.result.ok) =>
                  /\ last.result.val.t = "int"
                  /\ last.result.val.v < 0 => last.input[1] = "-"
           /\ (Classify(last.input) = "Int" /\ last.input[1] = "-"
                   /\ PrefixIn(Tail(last.input), NumberChars \ {".", "-"}) >= 1
                   /\ PrefixNotIn(last.input, AtomStops)
                          = 1 + PrefixIn(Tail(last.input),
                                         NumberChars \ {".", "-"})) =>
                  (last.result.ok /\ last.result.val.v <= 0)
           /\ (Classify(last.input) = "Float" /\ last.result.ok) =>
                  last.result.val.t = "float"
           /\ (Classify(last.input) = "String" /\ last.result.ok) =>
                  last.result.val.t = "str"

\* The index of `(item -1 )` was read as the signed integer -1.
SignedIntRead ==
    /\ ItemRead /\ last.input = <<"-", "1", " ", ")">>
    /\ Classify(last.input) = "Int"
    /\ last.result.ok /\ last.result.val = IntVal(-1)
    /\ last.after = <<" ", ")">>

\* The text without its leading whitespace.
Trimmed ==
    LET black == {i \in 1..Len(text) : text[i] \notin WhiteSpace}
    IN  IF black = {} THEN << >> ELSE SubSeq(text, Min(black), Len(text))

\* The longest run of letters and underscores after the first character
\* of the trimmed text.
HeadRun ==
    LET rest  == Tail(Trimmed)
        stops == {i \in 1..Len(rest) : rest[i] \notin IdentChars}
    IN  IF stops = {} THEN rest ELSE SubSeq(rest, 1, Min(stops) - 1)

\* The error the head of the text deserves for the name of the shape, ""
\* when it is `(` and the name.
HeadError ==
    IF Trimmed = << >> THEN "Eof"
    ELSE IF Trimmed[1] # "(" THEN "ExpectedSExpr"
    ELSE IF HeadRun = << >> THEN "ExpectedIdentifier"
    ELSE IF HeadRun # shape.name THEN "ExpectedSExprIdentifier"
    ELSE ""

\* C21: beginning a unit struct, a tuple struct or a record named N
\* succeeds only when the text, after its leading whitespace, is `(` and a
\* longest run of letters and underscores equal to N, and then `(` and N
\* are consumed and nothing more; otherwise it fails with Eof,
\* ExpectedSExpr, ExpectedIdentifier or ExpectedSExprIdentifier and only
\* the leading whitespace was consumed.
HeadIdentifierMatched ==
    /\ (pc = "decoded" /\ shape.k \in StructKinds /\ HeadError # "") =>
           /\ ~res.ok /\ res.err = HeadError
           /\ res.input = Trimmed
    /\ (pc = "decoded" /\ shape.k \in StructKinds /\ res.ok) => HeadError = ""
    /\ pc \in {"key", "value", "end"} => HeadError = ""
    /\ (pc = "key" /\ sx.index = 0 /\ last.index = -1 /\ keys = << >>) =>
           sx.input = SubSeq(Trimmed, Len(shape.name) + 2, Len(Trimmed))

\* `(atx 1 2)` was refused as a Position: the run after `(` is atx.
LongerHeadRefused ==
    /\ pc = "decoded" /\ shape = Type.Position
    /\ text = <<"(", "a", "t", "x", " ", "1", " ", "2", ")">>
    /\ HeadError = "ExpectedSExprIdentifier"
    /\ ~res.ok /\ res.err = "ExpectedSExprIdentifier" /\ res.input = text

\* The types numbers are asked as: u8, i16 and f32.
NumberTypes == {IntType(FALSE, 8), IntType(TRUE, 16), FloatType}

\* r is what the number at the head of the input deserves when asked as
\* ty: the run up to the next whitespace or `)` is told from the text, and
\* its value is the number its digits denote.
NumberParsed(r, input, ty) ==
    LET stops  == {i \in 1..Len(input) : input[i] \in AsciiWhitespace \cup {")"}}
        n      == IF stops = {} THEN Len(input) ELSE Min(stops) - 1
        run    == SubSeq(input, 1, n)
        rest   == SubSeq(input, n + 1, Len(input))
        signed == run # << >> /\ run[1] \in {"+", "-"}
        body   == IF signed THEN Tail(run) ELSE run
        digit  == {DigitChars[i] : i \in 1..Len(DigitChars)}
        points == {i \in 1..Len(body) : body[i] = "."}
        isInt  == body # << >> /\ \A i \in 1..Len(body) : body[i] \in digit
        isDec  == /\ \A i \in 1..Len(body) : body[i] \in digit \cup {"."}
                  /\ Cardinality(points) <= 1
                  /\ Len(body) > Cardinality(points)
        denoted == IF run[1] = "-" THEN -DigitsVal(body, 0)
                  ELSE DigitsVal(body, 0)
        fits   == IF ty.signed
                  THEN -(2 ^ (ty.bits - 1)) <= denoted /\ denoted < 2 ^ (ty.bits - 1)
                  ELSE run[1] # "-" /\ denoted < 2 ^ ty.bits
        failed(kind) == ~r.ok /\ r.err = kind /\ r.input = input
    IN  IF n = 0 THEN failed("ExpectedNumber")
        ELSE IF ty.k = "int"
             THEN IF isInt /\ fits
                  THEN r.ok /\ r.val = IntVal(denoted) /\ r.input = rest
                  ELSE failed("Message")
        ELSE IF isDec THEN r.ok /\ r.val.t = "float" /\ r.input = rest
        ELSE failed("Message")

\* The last next_value_seed handed a field declared as a number to Field.
NumberRead ==
    /\ shape.k = "struct" /\ last.index >= 0
    /\ LastDeserializer = "Field"
    /\ shape.shapes[last.index + 1].k \in {"int", "float"}

\* parse_number gives the number a Net is decoded from, alone, before `)`
\* and before a space, what it deserves as each of the types.
EveryNumberParsed ==
    (shape = Type.Net /\ pc = "text" /\ inserted = 0) =>
        \A ty \in NumberTypes, follow \in {<< >>, <<")">>, <<" ", "2">>} :
            NumberParsed(
                parse_number(SubSeq(text, 6, Len(text) - 1) \o follow, ty),
                SubSeq(text, 6, Len(text) - 1) \o follow, ty)

\* C22: parse_number takes the longest run of characters that are neither
\* ASCII whitespace nor `)`; an empty run fails with ExpectedNumber, a run
\* that is no number of the type asked, out of its range or negative for
\* an unsigned one, fails with Message and is never wrapped, and the input
\* is left as it was; on success the run and nothing else is consumed.
NumbersParsed ==
    /\ EveryNumberParsed
    /\ NumberRead =>
           NumberParsed(last.result, last.input,
                        shape.shapes[last.index + 1])

\* The code of `(net 299)` was refused with a message: 299 is no u8.
OutOfRangeRefused ==
    /\ NumberRead /\ shape = Type.Net
    /\ last.input = <<"2", "9", "9", ")">>
    /\ ~last.result.ok /\ last.result.err = "Message"
    /\ last.after = last.input

\* a is what is left of b after some of its first characters were
\* consumed.
IsSuffix(a, b) ==
    Len(a) <= Len(b) /\ a = SubSeq(b, Len(b) - Len(a) + 1, Len(b))

\* C23: after every operation of a decode, failed ones and failed trials
\* of an optional value included, what is left of the input is a suffix
\* of what was left before it, and the text is never changed.
MonotonicCursor ==
    [][/\ pc \in {"text", "written"} /\ pc' # pc =>
              /\ IsSuffix(res'.input, text)
              /\ IsSuffix(sx'.input, text)
       /\ pc \in {"key", "value", "end"} =>
              /\ IsSuffix(sx'.input, sx.input)
              /\ pc' \in {"decoded", "parsed"} => IsSuffix(res'.input, sx.input)
       /\ pc = "value" =>
              /\ last'.input = sx.input
              /\ IsSuffix(last'.after, sx.input)
              /\ IsSuffix(last'.attempt.input, sx.input)
              /\ IsSuffix(sx'.input, last'.after)
       /\ pc \in {"written", "key", "value", "end"} => text' = text]_vars

\* The trial of an optional field failed after it had consumed input: the
\* cursor it left is further on than where it began.
TrialLeftCursorAhead ==
    /\ last.index >= 0 /\ last.wrapped
    /\ ~last.attempt.ok
    /\ IsSuffix(last.attempt.input, last.input)
    /\ Len(last.attempt.input) < Len(last.input)

\* C24: while a record of n declared fields is decoded, 0 <= index <= n,
\* and skip_to, when set, is between index and n + 1; a value is only
\* asked for with index < n, and the panic of next_value_seed_impl is
\* never reached.
RecordCursorInvariant ==
    /\ pc \in {"key", "value", "end"} =>
           /\ 0 <= sx.index /\ sx.index <= Len(shape.fields)
           /\ sx.skip_to # NoSkip =>
                  (sx.index <= sx.skip_to
                       /\ sx.skip_to <= Len(shape.fields) + 1)
    /\ pc = "value" => sx.index < Len(shape.fields)
    /\ pc = "end" => sx.index = Len(shape.fields)
    /\ res.err # "IndexPanic" /\ last.result.err # "IndexPanic"
    /\ last.attempt.err # "IndexPanic"

\* A value is asked for while a skip to a later field is under way.
ValueAskedWhileSkipping ==
    /\ pc = "value" /\ sx.skip_to # NoSkip
    /\ sx.index < sx.skip_to /\ sx.skip_to < Len(shape.fields)

\* The last next_value_seed tried an optional field on the input and gave
\* None.
TrialGaveNone ==
    /\ shape.k = "struct" /\ last.index >= 0 /\ last.wrapped
    /\ LastDeserializer = "Field"
    /\ last.result.ok /\ last.result.val = None

\* C25: when the trial of an optional value fails and None is given, the
\* cursor is where it was before the trial but for leading whitespace,
\* whatever the shape tried.
TrialRolledBack ==
    TrialGaveNone =>
        last.after \in {last.input, skip_whitespace(last.input)}

\* What the last next_value_seed consumed of the input.
LastConsumed == SubSeq(last.input, 1, Len(last.input) - Len(last.after))

\* How many of the characters of s are c.
CountOf(s, c) == Cardinality({i \in 1..Len(s) : s[i] = c})

\* The last next_value_seed read a nested tuple struct or record from the
\* input and it was decoded.
NestedDecoded ==
    LET seed  == shape.shapes[last.index + 1]
        inner == IF seed.k = "option_with" THEN seed.of ELSE seed
    IN  /\ shape.k = "struct" /\ last.index >= 0
        /\ LastDeserializer = "Field"
        /\ inner.k \in {"tuple_struct", "struct"}
        /\ last.result.ok /\ last.result.val # None

\* C26: when the decode of a nested tuple struct or record succeeds, the
\* cursor is past the `)` that closes it: what was consumed ends with `)`
\* and holds as many `)` as `(`.
NestedClosed ==
    NestedDecoded =>
        /\ LastConsumed # << >>
        /\ LastConsumed[Len(LastConsumed)] = ")"
        /\ CountOf(LastConsumed, "(") = CountOf(LastConsumed, ")")

\* The indices (from 0) of the fields at or after the one the last
\* next_value_seed resolved that are named by the identifier it found at
\* the cursor, skip_to being unset.
NamedFromCursor ==
    IF shape.k = "struct" /\ last.index >= 0 /\ last.skip_to = NoSkip
    THEN {i \in last.index..(Len(shape.fields) - 1) :
            /\ shape.fields[i + 1] # << >>
            /\ shape.fields[i + 1] = peek_identifier(last.input)}
    ELSE {}

\* C27: with skip_to unset, an identifier at the cursor that is the name
\* of the field being resolved or of a later one is consumed as a flag,
\* whatever the shape of the field: the cursor moves past the identifier
\* and nothing else, the field's own name hands its visitor the boolean
\* true and a later name hands it false or none and sets skip_to, a
\* visitor that takes neither fails with a message, and the identifier is
\* never the string or enum value of the field.
FieldNameCaptured ==
    NamedFromCursor # {} =>
        LET identifier == peek_identifier(last.input)
            named      == Min(NamedFromCursor)
        IN  /\ last.after = SliceFrom(last.input, Len(identifier))
            /\ last.result.val.t \notin {"str", "variant"}
            /\ ~last.result.ok => last.result.err = "Message"
            /\ IF named = last.index
               THEN /\ last.skip_after = NoSkip
                    /\ last.result.ok => last.result.val = BoolVal(TRUE)
               ELSE /\ last.skip_after = named
                    /\ last.result.ok =>
                           last.result.val \in {BoolVal(FALSE), None}

\* The fill of `(zone fill layer)` named the enum field fill of Zone and
\* was consumed as its flag.
EnumFieldNamed ==
    /\ shape = Type.Zone
    /\ NamedFromCursor = {0}
    /\ last.after = SliceFrom(last.input, Len(Name.fill))
    /\ ~last.result.ok

\* The next token of the input: the characters up to the next whitespace
\* or `)`.
WholeToken(input) ==
    Slice(input, 0, Min({i \in 0..Len(input) :
                            \/ i = Len(input)
                            \/ input[i + 1] \in WhiteSpace \cup {")"}}))

\* C28: a field name is taken for a flag only when the whole next token
\* is the name: what follows the identifier in the input is whitespace,
\* `)` or nothing.
WholeTokenFlag ==
    NamedFromCursor # {} =>
        WholeToken(last.input) = peek_identifier(last.input)

\* The text is one or more digits.
DigitsOnly(s) == s # << >> /\ AllDigits(s)

\* The last next_value_seed read the field of an Item from a token of
\* digits only.
DigitsRead ==
    /\ shape = Type.Item /\ last.index = 0
    /\ LastDeserializer = "Field"
    /\ DigitsOnly(WholeToken(last.input))

\* C29: the class of a token depends on its own characters only. A token
\* of digits is read as an integer by a visitor that takes anything,
\* whether whitespace or `)` follows it, and no element of the decoded list
\* of Literal of a Group is a Text of digits only.
DelimiterIndependent ==
    /\ DigitsRead => (last.result.ok /\ last.result.val.t = "int")
    /\ (pc = "decoded" /\ shape = Type.Group /\ res.ok) =>
           \A i \in 1..Len(res.val.v[1].v) :
               res.val.v[1].v[i].v.t = "str" =>
                   ~DigitsOnly(res.val.v[1].v[i].v.v)

\* The string of a Description was asked for on a text that opens with
\* a quote, and the call has returned.
QuotedRead ==
    /\ pc = "decoded" /\ shape = Type.Description
    /\ \E i \in 1..Len(text) :
           /\ text[i] = "\""
           /\ CountOf(SubSeq(text, 1, i - 1), "(") = 1
           /\ \A j \in 1..(i - 1) :
                  text[j] \in WhiteSpace \cup IdentChars \cup {"("}

\* C30: parse_string on an input that opens with a quote returns the
\* decoded text or Eof; it never aborts, neither in unreachable!() nor by
\* slicing the accumulated value off a character boundary.
QuotedStringNeverAborts ==
    QuotedRead => res.err # "Panic"

====
